---------------------------- MODULE Spec2Model ----------------------------
(***************************************************************************)
(* Model of the stock dashboard: the favorites store (database.py), the    *)
(* authentication forms (auth.py) and the summary formatter (utils.py).    *)
(*                                                                         *)
(* The store is a SQLite database reached through one SQLAlchemy session   *)
(* per thread (scoped_session).  A SELECT of a session reads the committed *)
(* tables; the rows a session has flushed are invisible to the others      *)
(* until its commit; SQLite admits one writing transaction at a time (a    *)
(* second writer waits on the database lock).                              *)
(***************************************************************************)
EXTENDS Integers, Sequences, FiniteSets, TLC

(***************************************************************************)
(* Bounds of the model.                                                    *)
(***************************************************************************)
\* the favorites table holds at most this many rows (the table itself is unbounded)
MaxFavRows == 2
\* an info lacks at most this many of its keys, or has at most this many
MaxAbsent == 2
\* a history closes between 1 and this price
MaxClose == 3

\* the threads (Streamlit script runs) that call the store
Procs == {1, 2}

Usernames == {"ann", "bob"}
\* e-mail addresses and passwords are sequences of characters
MailA == <<"a", "@", "x", ".", "i", "o">>
MailB == <<"b", "@", "x", ".", "i", "o">>
PwStrong == <<"A", "b", "c", "1", "2", "3", "4", "5">>
PwStrong2 == <<"X", "y", "z", "9", "8", "7", "6", "5">>
StoreEmails == {MailA, MailB}
\* the passwords the store's callers register with, and those they log in with
RegisterPasswords == {PwStrong}
StorePasswords == {PwStrong, PwStrong2}
Symbols == {"AAPL", "MSFT"}
\* the ticker that concurrent callers contend for
RaceSymbols == {"AAPL"}
\* user ids a caller may pass; an id beyond the registered users names no user
UserIdArgs == 1 .. Cardinality(Usernames)

VARIABLES
    users,      \* table users: sequence of rows, id = position (autoincrement)
    stocks,     \* table stocks: sequence of rows, id = position
    favorites,  \* table favorites: sequence of <<user_id, stock_id>> rows, no key
    writer,     \* the thread holding SQLite's write lock, 0 when free
    pc,         \* each thread's position in the function it runs
    call,       \* each thread's current call: function and arguments
    sess,       \* each thread's session: the objects it loaded or added
    result,     \* what each thread's last call returned or raised
    hist,       \* history of each thread's current call (not program state):
                \* whether its pair was absent when it began, the outcome of the
                \* first conflicting call that ended while it ran, and whether
                \* more of them did
    registered, \* history: the password each stored username was registered with
    session_state, \* st.session_state: user_id, username, logged_in
    form,       \* the form last submitted and its fields
    message,    \* the messages the script run shows for it, in order
    info,       \* the fundamentals yfinance returns for the ticker
    summary,    \* what get_financial_summary returned for them
    num,        \* the argument of format_large_number
    formatted,  \* what format_large_number returned for it, <<>> before the call
    data,       \* the price history the page fetched for the ticker
    df,         \* what calculate_technical_indicators returned for it
    latest_data, \* the last row of df
    status,     \* the status labels shown for the last row
    page        \* the script run of the page: its position, the calls of
                \* get_stock_data it made, the messages and the charts it showed

storeVars == <<users, stocks, favorites, writer, pc, call, sess, result, hist, registered>>

formVars == <<session_state, form, message>>

fmtVars == <<info, summary, num, formatted>>

engVars == <<data, df, latest_data, status, page>>

(***************************************************************************)
(* werkzeug.security: a salted one-way hash, and its check.                *)
(***************************************************************************)
generate_password_hash(password) == [method |-> "scrypt", digest |-> <<"H", password>>]

\* (a check that accepts any password)
check_password_hash_any(pwhash, password) == TRUE

check_password_hash(pwhash, password) ==
    pwhash.digest = <<"H", password>>

(***************************************************************************)
(* Queries.                                                                *)
(***************************************************************************)
\* session.query(User).filter_by(username=...).first(): the id, 0 for None
user_by_username(us, username) ==
    IF \E i \in 1 .. Len(us) : us[i].username = username
    THEN CHOOSE i \in 1 .. Len(us) : us[i].username = username
    ELSE 0

user_by_email(us, email) ==
    IF \E i \in 1 .. Len(us) : us[i].email = email
    THEN CHOOSE i \in 1 .. Len(us) : us[i].email = email
    ELSE 0

\* session.query(User).filter_by(id=...).first()
user_by_id(us, user_id) == IF user_id \in 1 .. Len(us) THEN user_id ELSE 0

\* session.query(Stock).filter_by(symbol=...).first()
stock_by_symbol(ss, symbol) ==
    IF \E i \in 1 .. Len(ss) : ss[i].symbol = symbol
    THEN CHOOSE i \in 1 .. Len(ss) : ss[i].symbol = symbol
    ELSE 0

RECURSIVE unique_list(_)
\* the ORM returns each entity once, in the order of its first row
unique_list(s) ==
    IF s = <<>> THEN <<>>
    ELSE LET init == unique_list(SubSeq(s, 1, Len(s) - 1))
             last == s[Len(s)]
         IN  IF \E i \in 1 .. Len(init) : init[i] = last THEN init
             ELSE Append(init, last)

RECURSIVE rows_of_user(_, _)
\* SELECT stock_id FROM favorites WHERE user_id = ?, in row order
rows_of_user(fs, user_id) ==
    IF fs = <<>> THEN <<>>
    ELSE LET init == rows_of_user(SubSeq(fs, 1, Len(fs) - 1), user_id)
             last == fs[Len(fs)]
         IN  IF last[1] = user_id THEN Append(init, last[2]) ELSE init

\* user.favorites (lazy load through the secondary table): the stock ids
user_favorites(fs, user_id) == unique_list(rows_of_user(fs, user_id))

\* the number of favorites rows holding the pair
pair_rows(fs, user_id, stock_id) ==
    Cardinality({i \in 1 .. Len(fs) : fs[i] = <<user_id, stock_id>>})

\* DELETE FROM favorites WHERE stock_id = ?, whoever the user
RECURSIVE delete_rows_of_stock(_, _)
delete_rows_of_stock(fs, row) ==
    IF fs = <<>> THEN <<>>
    ELSE LET init == delete_rows_of_stock(SubSeq(fs, 1, Len(fs) - 1), row)
             last == fs[Len(fs)]
         IN  IF last[2] = row[2] THEN init ELSE Append(init, last)

RECURSIVE delete_rows(_, _)
\* DELETE FROM favorites WHERE user_id = ? AND stock_id = ?
delete_rows(fs, row) ==
    IF fs = <<>> THEN <<>>
    ELSE LET init == delete_rows(SubSeq(fs, 1, Len(fs) - 1), row)
             last == fs[Len(fs)]
         IN  IF last = row THEN init ELSE Append(init, last)

(***************************************************************************)
(* Calls, sessions and results.                                            *)
(***************************************************************************)
NoCall ==
    [op |-> "none", username |-> "", email |-> <<>>, password |-> <<>>,
     user_id |-> 0, symbol |-> "", company_name |-> ""]

NoSess == [stock |-> 0, pending |-> FALSE]

NoResult == [kind |-> "none", ok |-> FALSE, msg |-> "", user |-> 0, favs |-> <<>>]

Returned(ok, msg) == [NoResult EXCEPT !.kind = "return", !.ok = ok, !.msg = msg]

Raised(msg) == [NoResult EXCEPT !.kind = "raise", !.msg = msg]

NoPeer == [some |-> FALSE, same_user |-> FALSE, same_name |-> FALSE, same_mail |-> FALSE,
           absent |-> FALSE, unseen |-> FALSE, known |-> FALSE, free |-> FALSE,
           user_id |-> 0, kind |-> "none", ok |-> FALSE, msg |-> ""]

NoHist == [absent |-> FALSE, unseen |-> FALSE, known |-> FALSE, free |-> FALSE,
           peer |-> NoPeer, more |-> FALSE]

\* a thread between two calls
Idle(p) == pc[p] \in {"idle", "done", "raised"}

\* every result has been taken by its caller
Collected == \A q \in Procs : pc[q] \notin {"done", "raised"}

\* two calls that touch the same symbol, username or email
Conflict(c, d) ==
    \/ /\ c.op \in {"add_favorite_stock", "remove_favorite_stock"}
       /\ d.op \in {"add_favorite_stock", "remove_favorite_stock"}
       /\ c.symbol = d.symbol
    \/ /\ c.op = "add_user" /\ d.op = "add_user"
       /\ (c.username = d.username \/ c.email = d.email)

\* what a call that ended leaves in the history of those still running
\* (d is the call that is still running)
Outcome(c, h, res, d) ==
    [some |-> TRUE, same_user |-> c.user_id = d.user_id,
     same_name |-> c.username = d.username, same_mail |-> c.email = d.email,
     absent |-> h.absent, unseen |-> h.unseen, known |-> h.known, free |-> h.free,
     user_id |-> c.user_id, kind |-> res.kind, ok |-> res.ok, msg |-> res.msg]

\* init_db on an empty database file, and no call yet
StoreInit ==
    /\ users = <<>>
    /\ stocks = <<>>
    /\ favorites = <<>>
    /\ writer = 0
    /\ pc = [p \in Procs |-> "idle"]
    /\ call = [p \in Procs |-> NoCall]
    /\ sess = [p \in Procs |-> NoSess]
    /\ result = [p \in Procs |-> NoResult]
    /\ hist = [p \in Procs |-> NoHist]
    /\ registered = [u \in Usernames |-> <<>>]

\* (user: what authenticate_user returned to the login form, 0 for None;
\*  user_id, ticker: what a favorites button passed to the store)
NoForm == [kind |-> "none", username |-> "", email |-> <<>>, password |-> <<>>,
           confirm_password |-> <<>>, user |-> 0, user_id |-> 0, ticker |-> ""]

\* init_session_state
FormInit ==
    /\ session_state = [user_id |-> 0, username |-> "", logged_in |-> FALSE]
    /\ form = NoForm
    /\ message = <<>>

\* the thread's call c, with history h, ends: session.close(), which also rolls back
\* and unlocks; the calls still running that conflict with it record its outcome
FinishFrom(p, label, res, c, h) ==
    /\ pc' = [pc EXCEPT ![p] = label]
    /\ result' = [result EXCEPT ![p] = res]
    /\ sess' = [sess EXCEPT ![p] = NoSess]
    /\ writer' = IF writer = p THEN 0 ELSE writer
    /\ hist' = [q \in Procs |->
                 IF q = p THEN h
                 ELSE IF ~Idle(q) /\ Conflict(call[q], c)
                 THEN IF hist[q].peer.some \/ call[q].op # c.op
                      THEN [hist[q] EXCEPT !.more = TRUE]
                      ELSE [hist[q] EXCEPT !.peer = Outcome(c, h, res, call[q])]
                 ELSE hist[q]]

Finish(p, label, res) == FinishFrom(p, label, res, call[p], hist[p])

Goto(p, label) ==
    /\ pc' = [pc EXCEPT ![p] = label]
    /\ UNCHANGED <<result, writer, hist>>

GotoFrom(p, label, h) ==
    /\ pc' = [pc EXCEPT ![p] = label]
    /\ hist' = [hist EXCEPT ![p] = h]
    /\ UNCHANGED <<result, writer>>

\* the symbols of user.favorites, as the loops over it read them
favorite_symbols(ss, fs, user_id) ==
    LET ids == user_favorites(fs, user_id)
    IN  [i \in 1 .. Len(ids) |-> ss[ids[i]].symbol]

InSeq(x, s) == \E i \in 1 .. Len(s) : s[i] = x

\* whether the user has the symbol among the favorites rows
Favorited(ss, fs, user_id, symbol) ==
    /\ stock_by_symbol(ss, symbol) # 0
    /\ pair_rows(fs, user_id, stock_by_symbol(ss, symbol)) > 0

\* the history of a call that begins now
Began(c) ==
    [NoHist EXCEPT !.absent = ~Favorited(stocks, favorites, c.user_id, c.symbol),
                   !.unseen = stock_by_symbol(stocks, c.symbol) = 0,
                   !.known = user_by_id(users, c.user_id) # 0,
                   !.free = /\ user_by_username(users, c.username) = 0
                            /\ user_by_email(users, c.email) = 0]

\* a call begins: Session() hands the thread its session, and the first query
\* either ends the call with res or lets it go on at label
Begin(p, c, stop, res, label) ==
    /\ pc[p] = "idle"
    /\ call' = [call EXCEPT ![p] = c]
    /\ IF stop
       THEN FinishFrom(p, "done", res, c, Began(c))
       ELSE GotoFrom(p, label, Began(c)) /\ UNCHANGED sess
    /\ UNCHANGED <<users, stocks, favorites, registered>>

\* the caller has the result: the thread is free for its next call
taken(p) ==
    /\ pc[p] \in {"done", "raised"}
    /\ pc' = [pc EXCEPT ![p] = "idle"]
    /\ call' = [call EXCEPT ![p] = NoCall]
    /\ result' = [result EXCEPT ![p] = NoResult]
    /\ hist' = [hist EXCEPT ![p] = NoHist]
    /\ UNCHANGED <<users, stocks, favorites, registered, writer, sess>>

(***************************************************************************)
(* add_user                                                                *)
(***************************************************************************)
MsgUsernameExists == "Username already exists. Please choose a different username."
MsgEmailExists == "Email address already registered. Please use a different email."
MsgRegistered == "User registered successfully!"
MsgError == "An error occurred: "

\* an INSERT into a table without constraints
insert_user_unconstrained(us, username, email, password) ==
    [ok |-> TRUE, err |-> "",
     users |-> Append(us, [username |-> username, email |-> email,
                           password_hash |-> generate_password_hash(password)])]

\* the INSERT of the new user at commit, under the UNIQUE constraints of the table
insert_user(us, username, email, password) ==
    IF user_by_username(us, username) # 0
    THEN [ok |-> FALSE, users |-> us, err |-> "UNIQUE constraint failed: users.username"]
    ELSE IF user_by_email(us, email) # 0
    THEN [ok |-> FALSE, users |-> us, err |-> "UNIQUE constraint failed: users.email"]
    ELSE [ok |-> TRUE, err |-> "",
          users |-> Append(us, [username |-> username, email |-> email,
                                password_hash |-> generate_password_hash(password)])]

\* line 68: existing_user, the user that has the username
existing_user(us, username) == user_by_username(us, username)

\* (a lookup that finds nothing: the check of line 74 left out)
existing_email_unchecked(us, email) == 0

\* line 74: existing_email, the user that has the email
existing_email(us, email) == user_by_email(us, email)

\* lines 65-71: open the session, look the username up
add_user_username(p) ==
    \E username \in Usernames, email \in StoreEmails, password \in RegisterPasswords :
        Begin(p, [NoCall EXCEPT !.op = "add_user", !.username = username,
                                !.email = email, !.password = password],
              existing_user(users, username) # 0,
              Returned(FALSE, MsgUsernameExists), "au_email")

\* lines 73-81: look the email up, build the new user
add_user_email(p) ==
    /\ pc[p] = "au_email"
    /\ IF existing_email(users, call[p].email) # 0
       THEN Finish(p, "done", Returned(FALSE, MsgEmailExists))
       ELSE Goto(p, "au_commit") /\ UNCHANGED sess
    /\ UNCHANGED <<users, stocks, favorites, registered, call>>

\* lines 83-91: add and commit; a failed INSERT is rolled back and reported
add_user_commit(p) ==
    /\ pc[p] = "au_commit"
    /\ writer = 0
    /\ LET ins == insert_user(users, call[p].username, call[p].email, call[p].password)
       IN  /\ users' = ins.users
           /\ registered' = IF ins.ok
                            THEN [registered EXCEPT ![call[p].username] = call[p].password]
                            ELSE registered
           /\ Finish(p, "done",
                     IF ins.ok THEN Returned(TRUE, MsgRegistered)
                     ELSE Returned(FALSE, MsgError \o ins.err))
    /\ UNCHANGED <<stocks, favorites, call>>

(***************************************************************************)
(* authenticate_user and get_user_favorites read only.                     *)
(***************************************************************************)
\* lines 95-103: the user's id when the name is known and the hash matches, 0 for None
authenticate(us, username, password) ==
    LET u == user_by_username(us, username)
    IN  IF u # 0 /\ check_password_hash(us[u].password_hash, password) THEN u ELSE 0

authenticate_user(p) ==
    \E username \in Usernames, password \in StorePasswords :
        Begin(p, [NoCall EXCEPT !.op = "authenticate_user", !.username = username,
                                !.password = password],
              TRUE,
              [NoResult EXCEPT !.kind = "return",
                               !.user = authenticate(users, username, password),
                               !.ok = authenticate(users, username, password) # 0],
              "done")

\* lines 182-194: the user's favorites, [] for an unknown user
favorites_list(us, ss, fs, user_id) ==
    IF user_by_id(us, user_id) = 0 THEN <<>> ELSE favorite_symbols(ss, fs, user_id)

get_user_favorites(p) ==
    \E user_id \in UserIdArgs :
        Begin(p, [NoCall EXCEPT !.op = "get_user_favorites", !.user_id = user_id],
              TRUE,
              [NoResult EXCEPT !.kind = "return", !.ok = TRUE,
                               !.favs = favorites_list(users, stocks, favorites, user_id)],
              "done")

(***************************************************************************)
(* add_favorite_stock                                                      *)
(***************************************************************************)
MsgUserNotFound == "User not found."
MsgAlready(symbol) == symbol \o " is already in your favorites."
MsgAdded(symbol) == symbol \o " added to favorites."
MsgStockNotFound(symbol) == "Stock " \o symbol \o " not found."
MsgNotFavorite(symbol) == symbol \o " is not in your favorites."
MsgRemoved(symbol) == symbol \o " removed from favorites."

\* the favorites rows a thread's calls in progress may still insert
AddsInFlight == Cardinality({q \in Procs : call[q].op = "add_favorite_stock" /\ ~Idle(q)})

\* lines 107-113: open the session, get the user
add_favorite_stock_user(p, symbols) ==
    \E user_id \in UserIdArgs, symbol \in symbols :
        /\ Len(favorites) + AddsInFlight < MaxFavRows
        /\ Begin(p, [NoCall EXCEPT !.op = "add_favorite_stock", !.user_id = user_id,
                                   !.symbol = symbol, !.company_name = symbol],
                 user_by_id(users, user_id) = 0,
                 Returned(FALSE, MsgUserNotFound), "af_stock")

\* lines 115-121: get the stock, or add a new one to the session
add_favorite_stock_stock(p) ==
    /\ pc[p] = "af_stock"
    /\ LET st == stock_by_symbol(stocks, call[p].symbol)
       IN  sess' = [sess EXCEPT ![p] = [stock |-> st, pending |-> st = 0]]
    /\ Goto(p, "af_favs")
    /\ UNCHANGED <<users, stocks, favorites, registered, call>>

\* (a loop that never finds the symbol)
already_favorite_never(symbols, symbol) == FALSE

\* lines 124-127: the loop's verdict on the loaded favorites
already_favorite(symbols, symbol) == InSeq(symbol, symbols)

\* lines 123-130: loading user.favorites first flushes the session, which INSERTs a
\* new stock (and takes the write lock, or waits for it); then the loop and the append
add_favorite_stock_favs(p) ==
    /\ pc[p] = "af_favs"
    /\ sess[p].pending => writer = 0
    /\ IF sess[p].pending /\ stock_by_symbol(stocks, call[p].symbol) # 0
       THEN Finish(p, "raised", Raised("IntegrityError: UNIQUE constraint failed: stocks.symbol"))
       ELSE IF already_favorite(favorite_symbols(stocks, favorites, call[p].user_id),
                                call[p].symbol)
       THEN Finish(p, "done", Returned(FALSE, MsgAlready(call[p].symbol)))
       ELSE /\ pc' = [pc EXCEPT ![p] = "af_commit"]
            /\ writer' = IF sess[p].pending THEN p ELSE writer
            /\ UNCHANGED <<result, sess, hist>>
    /\ UNCHANGED <<users, stocks, favorites, registered, call>>

\* what the commit of add_favorite_stock writes: the new stock and the relation row
add_favorite_rows(ss, fs, pending, stock, user_id, symbol, company_name) ==
    IF pending
    THEN [stocks |-> Append(ss, [symbol |-> symbol, name |-> company_name]),
          favorites |-> Append(fs, <<user_id, Len(ss) + 1>>)]
    ELSE [stocks |-> ss, favorites |-> Append(fs, <<user_id, stock>>)]

\* lines 132-139: commit
add_favorite_stock_commit(p) ==
    /\ pc[p] = "af_commit"
    /\ writer \in {0, p}
    /\ LET w == add_favorite_rows(stocks, favorites, sess[p].pending, sess[p].stock,
                                  call[p].user_id, call[p].symbol, call[p].company_name)
       IN  /\ stocks' = w.stocks
           /\ favorites' = w.favorites
    /\ Finish(p, "done", Returned(TRUE, MsgAdded(call[p].symbol)))
    /\ UNCHANGED <<users, registered, call>>

(***************************************************************************)
(* remove_favorite_stock                                                   *)
(***************************************************************************)
\* lines 143-149: open the session, get the user
remove_favorite_stock_user(p, symbols) ==
    \E user_id \in UserIdArgs, symbol \in symbols :
        Begin(p, [NoCall EXCEPT !.op = "remove_favorite_stock", !.user_id = user_id,
                                !.symbol = symbol],
              user_by_id(users, user_id) = 0,
              Returned(FALSE, MsgUserNotFound), "rf_stock")

\* lines 151-155: get the stock
remove_favorite_stock_stock(p) ==
    /\ pc[p] = "rf_stock"
    /\ LET st == stock_by_symbol(stocks, call[p].symbol)
       IN  IF st = 0
           THEN Finish(p, "done", Returned(FALSE, MsgStockNotFound(call[p].symbol)))
           ELSE /\ sess' = [sess EXCEPT ![p] = [stock |-> st, pending |-> FALSE]]
                /\ Goto(p, "rf_favs")
    /\ UNCHANGED <<users, stocks, favorites, registered, call>>

\* (a loop that always finds the symbol)
found_always(symbols, symbol) == TRUE

\* lines 158-162: found, the loop's verdict on the loaded favorites
found(symbols, symbol) == InSeq(symbol, symbols)

\* lines 157-169: look for the symbol among user.favorites, remove it from the list
remove_favorite_stock_favs(p) ==
    /\ pc[p] = "rf_favs"
    /\ IF ~found(favorite_symbols(stocks, favorites, call[p].user_id), call[p].symbol)
       THEN Finish(p, "done", Returned(FALSE, MsgNotFavorite(call[p].symbol)))
       ELSE Goto(p, "rf_commit") /\ UNCHANGED sess
    /\ UNCHANGED <<users, stocks, favorites, registered, call>>

MsgStale == "DELETE statement on table 'favorites' expected to delete 1 row(s)"

\* (a DELETE that is not rolled back when its row count is wrong)
delete_favorite_no_rollback(ss, fs, user_id, stock) ==
    [ok |-> pair_rows(fs, user_id, stock) = 1, stocks |-> ss,
     favorites |-> delete_rows(fs, <<user_id, stock>>)]

\* (a DELETE that also deletes the stock once no user has it)
delete_favorite_orphan(ss, fs, user_id, stock) ==
    LET left == delete_rows(fs, <<user_id, stock>>)
    IN  IF pair_rows(fs, user_id, stock) = 1
        THEN [ok |-> TRUE, favorites |-> left,
              stocks |-> IF \E i \in 1 .. Len(left) : left[i][2] = stock THEN ss
                         ELSE SubSeq(ss, 1, stock - 1) \o SubSeq(ss, stock + 1, Len(ss))]
        ELSE [ok |-> FALSE, stocks |-> ss, favorites |-> fs]

\* the DELETE of one relation at commit: the ORM expects it to match one row, and
\* the relationship has no cascade that would delete the stock
delete_favorite(ss, fs, user_id, stock) ==
    IF pair_rows(fs, user_id, stock) = 1
    THEN [ok |-> TRUE, stocks |-> ss, favorites |-> delete_rows(fs, <<user_id, stock>>)]
    ELSE [ok |-> FALSE, stocks |-> ss, favorites |-> fs]

\* lines 171-178: commit; a failed DELETE is rolled back and reported
remove_favorite_stock_commit(p) ==
    /\ pc[p] = "rf_commit"
    /\ writer = 0
    /\ LET del == delete_favorite(stocks, favorites, call[p].user_id, sess[p].stock)
       IN  /\ favorites' = del.favorites
           /\ stocks' = del.stocks
           /\ Finish(p, "done",
                     IF del.ok THEN Returned(TRUE, MsgRemoved(call[p].symbol))
                     ELSE Returned(FALSE, MsgError \o MsgStale))
    /\ UNCHANGED <<users, registered, call>>

(***************************************************************************)
(* The store under concurrent callers, and under one caller at a time.     *)
(***************************************************************************)
\* (symbols: the tickers the callers name)
Step(p, symbols) ==
    \/ add_user_username(p)
    \/ add_user_email(p)
    \/ add_user_commit(p)
    \/ authenticate_user(p)
    \/ get_user_favorites(p)
    \/ add_favorite_stock_user(p, symbols)
    \/ add_favorite_stock_stock(p)
    \/ add_favorite_stock_favs(p)
    \/ add_favorite_stock_commit(p)
    \/ remove_favorite_stock_user(p, symbols)
    \/ remove_favorite_stock_stock(p)
    \/ remove_favorite_stock_favs(p)
    \/ remove_favorite_stock_commit(p)

(***************************************************************************)
(* auth.py: the forms of the sidebar, submitted by one script run at a     *)
(* time.                                                                   *)
(***************************************************************************)
UpperChars == {"A", "B", "C", "D", "E", "F", "G", "H", "I", "J", "K", "L", "M",
               "N", "O", "P", "Q", "R", "S", "T", "U", "V", "W", "X", "Y", "Z"}
LowerChars == {"a", "b", "c", "d", "e", "f", "g", "h", "i", "j", "k", "l", "m",
               "n", "o", "p", "q", "r", "s", "t", "u", "v", "w", "x", "y", "z"}
DigitChars == {"0", "1", "2", "3", "4", "5", "6", "7", "8", "9"}
\* the class \w of the pattern
WordChars == UpperChars \cup LowerChars \cup DigitChars \cup {"_"}

\* s[from .. to] is a non-empty run of characters of the class
Run(s, from, to, class) == from <= to /\ \A i \in from .. to : s[i] \in class

\* lines 16-17: re.match(r'^[\w\.-]+@[\w\.-]+\.\w+$', email); $ matches at the end
\* and before a final newline
validate_email(email) ==
    LET n == IF Len(email) > 0 /\ email[Len(email)] = "\n"
             THEN Len(email) - 1 ELSE Len(email)
    IN  \E i, j \in 1 .. n :
            /\ i < j
            /\ email[i] = "@"
            /\ email[j] = "."
            /\ Run(email, 1, i - 1, WordChars \cup {".", "-"})
            /\ Run(email, i + 1, j - 1, WordChars \cup {".", "-"})
            /\ Run(email, j + 1, n, WordChars)

MsgTooShort == "Password must be at least 8 characters long"
MsgNoUpper == "Password must contain at least one uppercase letter"
MsgNoLower == "Password must contain at least one lowercase letter"
MsgNoDigit == "Password must contain at least one number"

\* any(c in class for c in password)
HasChar(password, class) == \E i \in 1 .. Len(password) : password[i] \in class

\* (a policy that leaves the uppercase check out)
validate_password_no_upper(password) ==
    IF Len(password) < 8 THEN [ok |-> FALSE, msg |-> MsgTooShort]
    ELSE IF ~HasChar(password, LowerChars) THEN [ok |-> FALSE, msg |-> MsgNoLower]
    ELSE IF ~HasChar(password, DigitChars) THEN [ok |-> FALSE, msg |-> MsgNoDigit]
    ELSE [ok |-> TRUE, msg |-> "Password is valid"]

\* lines 19-34
validate_password(password) ==
    IF Len(password) < 8 THEN [ok |-> FALSE, msg |-> MsgTooShort]
    ELSE IF ~HasChar(password, UpperChars) THEN [ok |-> FALSE, msg |-> MsgNoUpper]
    ELSE IF ~HasChar(password, LowerChars) THEN [ok |-> FALSE, msg |-> MsgNoLower]
    ELSE IF ~HasChar(password, DigitChars) THEN [ok |-> FALSE, msg |-> MsgNoDigit]
    ELSE [ok |-> TRUE, msg |-> "Password is valid"]

\* database.add_user as one call of a single script run: its result and the table
add_user(us, username, email, password) ==
    IF existing_user(us, username) # 0
    THEN [ok |-> FALSE, msg |-> MsgUsernameExists, users |-> us]
    ELSE IF existing_email(us, email) # 0
    THEN [ok |-> FALSE, msg |-> MsgEmailExists, users |-> us]
    ELSE LET ins == insert_user(us, username, email, password)
         IN  [ok |-> ins.ok, users |-> ins.users,
              msg |-> IF ins.ok THEN MsgRegistered ELSE MsgError \o ins.err]

\* what the forms' fields may hold
PwNoUpper == <<"a", "b", "c", "1", "2", "3", "4", "5">>
PwShort == <<"A", "b", "c", "1", "2", "3", "4">>
PwNoLower == <<"A", "B", "C", "1", "2", "3", "4", "5">>
PwNoDigit == <<"A", "b", "c", "d", "e", "f", "g", "h">>
MailNoDot == <<"a", "@", "x">>
MailNoAt == <<"a", ".", "i", "o">>
FormUsernames == Usernames \cup {""}
FormEmails == StoreEmails \cup {<<>>, MailNoDot, MailNoAt}
FormPasswords == {<<>>, PwStrong, PwStrong2, PwNoUpper, PwShort, PwNoLower, PwNoDigit}
\* the confirmation repeats the password, is left empty or is another password
Confirmations(password) == {password, <<>>, PwStrong2}

MsgFillAll == "Please fill in all fields"
MsgInvalidEmail == "Please enter a valid email address"
MsgMismatch == "Passwords do not match"
MsgInvalidLogin == "Invalid username or password"
MsgPleaseLogIn == "Please log in with your new account."
MsgLoggedOut == "You have been logged out."
MsgWelcome(username) == "Welcome back, " \o username \o "!"

\* lines 44-57: the login form is submitted (shown only while logged out, line 120)
login_form_of(usernames, passwords) ==
    /\ ~session_state.logged_in
    /\ \E username \in usernames, password \in passwords :
          LET filled == username # "" /\ password # <<>>
              user == IF filled THEN authenticate(users, username, password) ELSE 0
          IN  /\ form' = [NoForm EXCEPT !.kind = "login", !.username = username,
                                        !.password = password, !.user = user]
              /\ IF ~filled
                 THEN message' = <<MsgFillAll>> /\ UNCHANGED session_state
                 ELSE IF user # 0
                 THEN /\ session_state' = [user_id |-> user,
                                           username |-> users[user].username,
                                           logged_in |-> TRUE]
                      /\ message' = <<MsgWelcome(username)>>
                 ELSE message' = <<MsgInvalidLogin>> /\ UNCHANGED session_state
    /\ UNCHANGED storeVars

\* lines 70-93: the signup form is submitted (shown only while logged out, line 120)
signup_form_of(usernames, emails, passwords) ==
    /\ ~session_state.logged_in
    /\ \E username \in usernames, email \in emails, password \in passwords :
       \E confirm_password \in Confirmations(password) :
          LET policy == validate_password(password)
              added == add_user(users, username, email, password)
          IN  /\ form' = [NoForm EXCEPT !.kind = "signup", !.username = username,
                                        !.email = email, !.password = password,
                                        !.confirm_password = confirm_password]
              /\ IF username = "" \/ email = <<>> \/ password = <<>>
                    \/ confirm_password = <<>>
                 THEN message' = <<MsgFillAll>> /\ UNCHANGED <<users, registered>>
                 ELSE IF ~validate_email(email)
                 THEN message' = <<MsgInvalidEmail>> /\ UNCHANGED <<users, registered>>
                 ELSE IF password # confirm_password
                 THEN message' = <<MsgMismatch>> /\ UNCHANGED <<users, registered>>
                 ELSE IF ~policy.ok
                 THEN message' = <<policy.msg>> /\ UNCHANGED <<users, registered>>
                 ELSE /\ users' = added.users
                      /\ registered' = IF added.ok
                                       THEN [registered EXCEPT ![username] = password]
                                       ELSE registered
                      /\ message' = IF added.ok THEN <<added.msg, MsgPleaseLogIn>>
                                    ELSE <<added.msg>>
    /\ UNCHANGED <<stocks, favorites, writer, pc, call, sess, result, hist, session_state>>

login_form == login_form_of(FormUsernames, FormPasswords)

signup_form == signup_form_of(FormUsernames, FormEmails, FormPasswords)

\* lines 95-101, behind the Log Out button (shown only while logged in, line 108)
logout ==
    /\ session_state.logged_in
    /\ session_state' = [user_id |-> 0, username |-> "", logged_in |-> FALSE]
    /\ form' = [NoForm EXCEPT !.kind = "logout"]
    /\ message' = <<MsgLoggedOut>>
    /\ UNCHANGED storeVars

\* database.py lines 105-139, called by one caller at a time: the new stock of
\* line 121 is written only by the commit, and is rolled back by the close of line 126
add_favorite_stock(us, ss, fs, user_id, symbol, company_name) ==
    LET stock == stock_by_symbol(ss, symbol)
        w == add_favorite_rows(ss, fs, stock = 0, stock, user_id, symbol, company_name)
    IN  IF user_by_id(us, user_id) = 0
        THEN [ok |-> FALSE, msg |-> MsgUserNotFound, stocks |-> ss, favorites |-> fs]
        ELSE IF already_favorite(favorite_symbols(ss, fs, user_id), symbol)
        THEN [ok |-> FALSE, msg |-> MsgAlready(symbol), stocks |-> ss, favorites |-> fs]
        ELSE [ok |-> TRUE, msg |-> MsgAdded(symbol), stocks |-> w.stocks,
              favorites |-> w.favorites]

\* database.py lines 141-178, called by one caller at a time
remove_favorite_stock(us, ss, fs, user_id, symbol) ==
    LET stock == stock_by_symbol(ss, symbol)
        del == delete_favorite(ss, fs, user_id, stock)
    IN  IF user_by_id(us, user_id) = 0
        THEN [ok |-> FALSE, msg |-> MsgUserNotFound, stocks |-> ss, favorites |-> fs]
        ELSE IF stock = 0
        THEN [ok |-> FALSE, msg |-> MsgStockNotFound(symbol), stocks |-> ss,
              favorites |-> fs]
        ELSE IF ~found(favorite_symbols(ss, fs, user_id), symbol)
        THEN [ok |-> FALSE, msg |-> MsgNotFavorite(symbol), stocks |-> ss,
              favorites |-> fs]
        ELSE [ok |-> del.ok, stocks |-> del.stocks, favorites |-> del.favorites,
              msg |-> IF del.ok THEN MsgRemoved(symbol) ELSE MsgError \o MsgStale]

\* (a section that is drawn for visitors too)
section_shown_to_all(logged_in) == TRUE

\* app.py line 407, auth.py lines 130-131: the section is drawn only while logged in
section_shown(logged_in) == logged_in

\* auth.py lines 129-161: the button under the ticker is pressed. It is Remove from
\* Favorites when the ticker is among get_user_favorites(user_id), Add to Favorites
\* otherwise, and it passes the session's user_id
favorite_stocks_section(tickers) ==
    /\ section_shown(session_state.logged_in)
    /\ \E ticker \in tickers :
          LET user_id == session_state.user_id
              favorite_syms == IF user_by_id(users, user_id) = 0 THEN <<>>
                               ELSE favorite_symbols(stocks, favorites, user_id)
              done == IF InSeq(ticker, favorite_syms)
                      THEN remove_favorite_stock(users, stocks, favorites, user_id, ticker)
                      ELSE add_favorite_stock(users, stocks, favorites, user_id, ticker,
                                              ticker)
          IN  /\ form' = [NoForm EXCEPT !.kind = IF InSeq(ticker, favorite_syms)
                                                 THEN "remove_favorite"
                                                 ELSE "add_favorite",
                                        !.user_id = user_id, !.ticker = ticker]
              /\ stocks' = done.stocks
              /\ favorites' = done.favorites
              /\ message' = <<done.msg>>
    /\ UNCHANGED <<users, writer, pc, call, sess, result, hist, registered, session_state>>

(***************************************************************************)
(* utils.py: the summary formatter.                                        *)
(*                                                                         *)
(* A number is its type (int or float), its sign and its decimal           *)
(* expansion: g thousand-millions, then m, k, u in 0 .. 999 for the        *)
(* millions, thousands and units, and f millionths. A text is a sequence   *)
(* of characters. A value of a dict is a text, a number, None, or absent.  *)
(***************************************************************************)
IntNum(g, m, k, u) == [int |-> TRUE, neg |-> FALSE, g |-> g, m |-> m, k |-> k, u |-> u, f |-> 0]
FloatNum(g, m, k, u, f) ==
    [int |-> FALSE, neg |-> FALSE, g |-> g, m |-> m, k |-> k, u |-> u, f |-> f]
Neg(n) == [n EXCEPT !.neg = TRUE]
IsZero(n) == n.g = 0 /\ n.m = 0 /\ n.k = 0 /\ n.u = 0 /\ n.f = 0

Absent == [t |-> "absent", s |-> <<>>, n |-> IntNum(0, 0, 0, 0)]
None == [t |-> "None", s |-> <<>>, n |-> IntNum(0, 0, 0, 0)]
Str(s) == [t |-> "str", s |-> s, n |-> IntNum(0, 0, 0, 0)]
Num(n) == [t |-> "num", s |-> <<>>, n |-> n]
NA == Str(<<"N", "/", "A">>)

\* the keys of yfinance's info that the summary reads
TextRaw == {"shortName", "sector", "industry", "recommendationKey"}
NumericRaw ==
    {"marketCap", "currentPrice", "regularMarketPrice", "open", "dayHigh", "dayLow",
     "previousClose", "volume", "averageVolume", "fiftyTwoWeekHigh", "fiftyTwoWeekLow",
     "trailingPE", "forwardPE", "pegRatio", "priceToBook", "enterpriseValue",
     "enterpriseToRevenue", "enterpriseToEbitda", "beta", "dividendRate",
     "dividendYield", "targetMeanPrice", "esgScore"}
RawKeys == TextRaw \cup NumericRaw

\* lines 385-412: the summary's keys that copy one key of info, and that key
Source ==
    [name |-> "shortName", sector |-> "sector", industry |-> "industry",
     market_cap |-> "marketCap", open |-> "open", high |-> "dayHigh", low |-> "dayLow",
     previous_close |-> "previousClose", volume |-> "volume",
     avg_volume |-> "averageVolume", 52w_high |-> "fiftyTwoWeekHigh",
     52w_low |-> "fiftyTwoWeekLow", pe_ratio |-> "trailingPE",
     forward_pe |-> "forwardPE", peg_ratio |-> "pegRatio",
     price_to_book |-> "priceToBook", enterprise_value |-> "enterpriseValue",
     enterprise_to_revenue |-> "enterpriseToRevenue",
     enterprise_to_ebitda |-> "enterpriseToEbitda", beta |-> "beta",
     dividend_rate |-> "dividendRate", target_mean_price |-> "targetMeanPrice",
     recommendation |-> "recommendationKey", esg_score |-> "esgScore"]
SummaryKeys == DOMAIN Source \cup {"current_price", "dividend_yield"}
\* lines 377-383: the keys read with the default None
NoneDefault == {"pe_ratio", "forward_pe", "peg_ratio", "price_to_book",
                "enterprise_value", "enterprise_to_revenue", "enterprise_to_ebitda"}
\* lines 416, 425: the keys the loop never scales
RatioKeys == {"dividend_yield", "pe_ratio", "forward_pe", "peg_ratio", "price_to_book",
              "beta", "enterprise_to_revenue", "enterprise_to_ebitda"}

\* dict.get(key, default)
get(d, key, default) == IF d[key].t = "absent" THEN default ELSE d[key]

Digit == <<"0", "1", "2", "3", "4", "5", "6", "7", "8", "9">>
RECURSIVE digits(_)
digits(n) == IF n < 10 THEN <<Digit[n + 1]>> ELSE digits(n \div 10) \o <<Digit[(n % 10) + 1]>>
pad3(x) == <<Digit[(x \div 100) + 1], Digit[((x \div 10) % 10) + 1], Digit[(x % 10) + 1]>>
RECURSIVE pads(_, _)
pads(w, i) == IF i > Len(w) THEN <<>> ELSE pad3(w[i]) \o pads(w, i + 1)

\* an integer given by its base-1000 limbs, in decimal
render(w) ==
    LET first == CHOOSE i \in 1 .. Len(w) :
                     (w[i] # 0 \/ i = Len(w)) /\ \A j \in 1 .. i - 1 : w[j] = 0
    IN  digits(w[first]) \o pads(w, first + 1)

\* the limbs plus one
incr(w) ==
    LET i == CHOOSE i \in 1 .. Len(w) :
                 (i = 1 \/ w[i] < 999) /\ \A j \in i + 1 .. Len(w) : w[j] = 999
    IN  [j \in 1 .. Len(w) |-> IF j < i THEN w[j] ELSE IF j = i THEN w[i] + 1 ELSE 0]

Limbs(n) == <<n.g \div 1000, n.g % 1000, n.m, n.k, n.u>>

\* f"{n / 1000^shift:.2f}": the quotient rounded to two decimals. A quotient that
\* lies halfway between two of them goes up or down with the binary double next
\* to it: either way (up)
two_decimals(n, shift, up) ==
    LET L == Limbs(n)
        whole == [i \in 1 .. 5 |-> IF i <= shift THEN 0 ELSE L[i - shift]]
        frac == SubSeq(L, 6 - shift, 5) \o <<n.f \div 1000, n.f % 1000>>
        hundredths == frac[1] \div 10
        d == frac[1] % 10
        exact == \A i \in 2 .. Len(frac) : frac[i] = 0
        bump == d > 5 \/ (d = 5 /\ (~exact \/ up))
        c == IF bump THEN hundredths + 1 ELSE hundredths
    IN  (IF n.neg THEN <<"-">> ELSE <<>>)
        \o render(IF c = 100 THEN incr(whole) ELSE whole)
        \o <<".", Digit[((c % 100) \div 10) + 1], Digit[(c % 10) + 1]>>

\* n > lim, lim a whole number of units given by its limbs <<g, m, k, u>>
Greater(n, lim) ==
    LET a == <<n.g, n.m, n.k, n.u>>
    IN  /\ ~n.neg
        /\ \/ \E i \in 1 .. 4 : a[i] > lim[i] /\ \A j \in 1 .. i - 1 : a[j] = lim[j]
           \/ a = lim /\ n.f > 0

\* n >= lim
GreaterEq(n, lim) == Greater(n, lim) \/ (~n.neg /\ <<n.g, n.m, n.k, n.u>> = lim)

Billion == <<1, 0, 0, 0>>
Million == <<0, 1, 0, 0>>
Thousand == <<0, 0, 1, 0>>

\* n * 100, exactly
times100(n) ==
    LET f == n.f * 100
        u == n.u * 100 + (f \div 1000000)
        k == n.k * 100 + (u \div 1000)
        m == n.m * 100 + (k \div 1000)
    IN  [n EXCEPT !.f = f % 1000000, !.u = u % 1000, !.k = k % 1000, !.m = m % 1000,
                  !.g = n.g * 100 + (m \div 1000)]

RECURSIVE repeat(_, _)
repeat(s, times) == IF times = 0 THEN <<>> ELSE s \o repeat(s, times - 1)

\* (up: which way a call's halfway case rounds. The number, its quotient by the
\* scale and its product by 100 are never halfway together, so one flag serves.)
\* lines 417-424: a number as money
money(n, up) ==
    <<"$">> \o (IF Greater(n, Billion) THEN two_decimals(n, 3, up) \o <<"B">>
                ELSE IF Greater(n, Million) THEN two_decimals(n, 2, up) \o <<"M">>
                ELSE IF Greater(n, Thousand) THEN two_decimals(n, 1, up) \o <<"K">>
                ELSE two_decimals(n, 0, up))

\* line 408: the dividend yield, times 100 when it is there and not falsy
dividend_yield(fields) ==
    LET y == fields["dividendYield"]
    IN  IF y.t = "num" /\ ~IsZero(y.n) THEN Num(times100(y.n))
        ELSE IF y.t = "str" /\ y.s # <<>> THEN Str(repeat(y.s, 100))
        ELSE NA

\* lines 377-412: the summary before the loop
raw_summary(fields) ==
    [key \in SummaryKeys |->
        IF key = "current_price"
        THEN get(fields, "currentPrice", get(fields, "regularMarketPrice", NA))
        ELSE IF key = "dividend_yield" THEN dividend_yield(fields)
        ELSE get(fields, Source[key], IF key \in NoneDefault THEN None ELSE NA)]

\* lines 415-426: the loop's entry for a key
formatted_value(key, value, up) ==
    IF value.t = "num" /\ key \notin RatioKeys THEN Str(money(value.n, up))
    ELSE IF value.t = "num" /\ ~value.n.int /\ key \in RatioKeys
    THEN Str(two_decimals(value.n, 0, up))
    ELSE value

NoSummary == [kind |-> "unset", d |-> [key \in SummaryKeys |-> Absent]]

\* lines 372-428: None for no info, else the summary
financial_summary(fields, up) ==
    IF \A key \in RawKeys : fields[key].t = "absent"
    THEN [NoSummary EXCEPT !.kind = "None"]
    ELSE LET before == raw_summary(fields)
         IN  [kind |-> "dict",
              d |-> [key \in SummaryKeys |-> formatted_value(key, before[key], up)]]

\* (a scale chosen by >= at each threshold)
large_number_inclusive(x, up) ==
    IF x.t # "num" THEN NA.s
    ELSE <<"$">> \o
         (IF GreaterEq(x.n, Billion) THEN two_decimals(x.n, 3, up) \o <<"B">>
          ELSE IF GreaterEq(x.n, Million) THEN two_decimals(x.n, 2, up) \o <<"M">>
          ELSE IF GreaterEq(x.n, Thousand) THEN two_decimals(x.n, 1, up) \o <<"K">>
          ELSE two_decimals(x.n, 0, up))

\* lines 491-501: format_large_number
large_number(x, up) ==
    IF x.t # "num" THEN NA.s
    ELSE <<"$">> \o
         (IF Greater(x.n, Billion) THEN two_decimals(x.n, 3, up) \o <<"B">>
          ELSE IF Greater(x.n, Million) THEN two_decimals(x.n, 2, up) \o <<"M">>
          ELSE IF Greater(x.n, Thousand) THEN two_decimals(x.n, 1, up) \o <<"K">>
          ELSE two_decimals(x.n, 0, up))

\* app.py line 397: the page asks for the ticker's summary
get_financial_summary ==
    /\ \E up \in BOOLEAN : summary' = financial_summary(info, up)
    /\ UNCHANGED <<info, num, formatted, storeVars, formVars, engVars>>

\* format_large_number is called with num
format_large_number ==
    /\ \E up \in BOOLEAN : formatted' = large_number(num, up)
    /\ UNCHANGED <<info, num, summary, storeVars, formVars, engVars>>

\* the numbers the fields hold
NumValues ==
    {IntNum(0, 0, 0, 0), IntNum(0, 0, 0, 50), IntNum(0, 0, 1, 0), IntNum(0, 0, 1, 1),
     IntNum(0, 0, 1, 125), IntNum(0, 0, 500, 0), IntNum(0, 1, 0, 0), IntNum(0, 1, 0, 1),
     IntNum(1, 0, 0, 0), IntNum(1, 0, 0, 1), IntNum(2, 500, 0, 0), IntNum(1500, 0, 0, 0),
     Neg(IntNum(0, 0, 0, 5)), Neg(IntNum(0, 2, 0, 0)),
     FloatNum(0, 0, 0, 0, 0), FloatNum(0, 0, 0, 0, 12300), FloatNum(0, 0, 0, 0, 125000),
     FloatNum(0, 0, 0, 25, 375000), FloatNum(0, 0, 0, 999, 999000), FloatNum(0, 0, 1, 0, 0),
     FloatNum(0, 0, 1, 0, 1000), FloatNum(0, 0, 999, 999, 999000),
     FloatNum(0, 1, 234, 567, 891000), FloatNum(1, 0, 0, 0, 0), FloatNum(2, 500, 0, 0, 0),
     Neg(FloatNum(0, 0, 0, 2, 500000))}
TextValue == Str(<<"A", "c", "m", "e">>)
DefaultNumber == FloatNum(0, 0, 0, 25, 375000)

RECURSIVE SubsetsUpTo(_, _)
SubsetsUpTo(S, n) ==
    IF n = 0 THEN {{}}
    ELSE LET P == SubsetsUpTo(S, n - 1) IN P \cup {A \cup {x} : A \in P, x \in S}

\* the sets of absent keys: up to MaxAbsent keys absent, or all but that many
AbsentSets ==
    LET Few == SubsetsUpTo(RawKeys, MaxAbsent) IN Few \cup {RawKeys \ A : A \in Few}

\* the info yfinance returns for the ticker, in which every numeric field holds v
InfoOf(A, v) ==
    [key \in RawKeys |-> IF key \in A THEN Absent
                         ELSE IF key \in TextRaw THEN TextValue ELSE Num(v)]

\* nothing fetched, nothing formatted
FmtIdle ==
    /\ info = InfoOf(RawKeys, DefaultNumber)
    /\ summary = NoSummary
    /\ num = None
    /\ formatted = <<>>

\* an info, and an argument for format_large_number
FmtInit ==
    /\ \E v \in NumValues, A \in AbsentSets :
          /\ v = DefaultNumber \/ Cardinality(A) <= 1
          /\ info = InfoOf(A, v)
          /\ num \in {Num(v), None, NA}
    /\ summary = NoSummary
    /\ formatted = <<>>

(***************************************************************************)
(* utils.py: the indicator engine.                                         *)
(*                                                                         *)
(* A float is nan, an infinity, or the fraction n / d in lowest terms      *)
(* (d > 0); a zero carries its sign (nz: the zero is -0.0). The arithmetic *)
(* is exact: the rounding of binary doubles is left out.                   *)
(***************************************************************************)
Abs(i) == IF i < 0 THEN -i ELSE i
RECURSIVE GCD(_, _)
GCD(a, b) == IF b = 0 THEN a ELSE GCD(b, a % b)

NaN == [k |-> "nan", n |-> 0, d |-> 1, nz |-> FALSE]
PInf == [k |-> "pinf", n |-> 0, d |-> 1, nz |-> FALSE]
NInf == [k |-> "ninf", n |-> 0, d |-> 1, nz |-> FALSE]
\* the fraction n / d, d > 0, n # 0 or a positive zero
Q(n, d) ==
    LET g == GCD(Abs(n), d)
    IN  [k |-> "num", n |-> n \div g, d |-> d \div g, nz |-> FALSE]
\* the zero of sign s, the infinity of sign s
Zero(s) == [k |-> "num", n |-> 0, d |-> 1, nz |-> s < 0]
Inf(s) == IF s < 0 THEN NInf ELSE PInf
\* the sign bit of a float that is not nan, as 1 or -1
Sign(a) ==
    IF a.k = "pinf" THEN 1
    ELSE IF a.k = "ninf" THEN -1
    ELSE IF a.n > 0 THEN 1
    ELSE IF a.n < 0 \/ a.nz THEN -1
    ELSE 1
IsInf(a) == a.k \in {"pinf", "ninf"}

\* -a
fneg(a) ==
    IF a.k = "nan" THEN NaN
    ELSE IF IsInf(a) THEN Inf(-Sign(a))
    ELSE IF a.n = 0 THEN Zero(-Sign(a))
    ELSE [a EXCEPT !.n = -a.n]

\* a + b
fadd(a, b) ==
    IF a.k = "nan" \/ b.k = "nan" THEN NaN
    ELSE IF IsInf(a) THEN (IF IsInf(b) /\ b.k # a.k THEN NaN ELSE a)
    ELSE IF IsInf(b) THEN b
    ELSE LET g == GCD(a.d, b.d)
             n == a.n * (b.d \div g) + b.n * (a.d \div g)
         IN  IF n = 0
             THEN Zero(IF a.n = 0 /\ b.n = 0 /\ a.nz /\ b.nz THEN -1 ELSE 1)
             ELSE Q(n, (a.d \div g) * b.d)

\* a - b
fsub(a, b) == fadd(a, fneg(b))

\* a * b
fmul(a, b) ==
    IF a.k = "nan" \/ b.k = "nan" THEN NaN
    ELSE IF IsInf(a) \/ IsInf(b)
    THEN (IF (a.k = "num" /\ a.n = 0) \/ (b.k = "num" /\ b.n = 0) THEN NaN
          ELSE Inf(Sign(a) * Sign(b)))
    ELSE IF a.n = 0 \/ b.n = 0 THEN Zero(Sign(a) * Sign(b))
    ELSE LET g == GCD(Abs(a.n), b.d)
             h == GCD(Abs(b.n), a.d)
         IN  Q((a.n \div g) * (b.n \div h), (a.d \div h) * (b.d \div g))

\* a / b: a division by zero gives an infinity or nan, never an error
fdiv(a, b) ==
    IF a.k = "nan" \/ b.k = "nan" THEN NaN
    ELSE IF IsInf(a) THEN (IF IsInf(b) THEN NaN ELSE Inf(Sign(a) * Sign(b)))
    ELSE IF IsInf(b) THEN Zero(Sign(a) * Sign(b))
    ELSE IF b.n = 0 THEN (IF a.n = 0 THEN NaN ELSE Inf(Sign(a) * Sign(b)))
    ELSE IF a.n = 0 THEN Zero(Sign(a) * Sign(b))
    ELSE fmul(a, [b EXCEPT !.n = Sign(b) * b.d, !.d = Abs(b.n)])

\* a > b, false when either is nan
fgt(a, b) ==
    /\ a.k # "nan" /\ b.k # "nan"
    /\ IF a.k = "pinf" THEN b.k # "pinf"
       ELSE IF a.k = "ninf" \/ b.k = "pinf" THEN FALSE
       ELSE IF b.k = "ninf" THEN TRUE
       ELSE fsub(a, b).n > 0

\* a < b, false when either is nan
flt(a, b) == fgt(b, a)

\* a == b as floats: the two zeros are equal, nan equals nothing

\* the running sums of xs (a nan counts as 0) and the running counts of its nans
RECURSIVE cumsum(_, _)
cumsum(xs, t) ==
    IF t = 0 THEN <<>>
    ELSE LET before == cumsum(xs, t - 1)
             x == IF xs[t].k = "nan" THEN Zero(1) ELSE xs[t]
         IN  Append(before, IF t = 1 THEN x ELSE fadd(before[t - 1], x))
RECURSIVE cumnan(_, _)
cumnan(xs, t) ==
    IF t = 0 THEN <<>>
    ELSE LET before == cumnan(xs, t - 1)
             x == IF xs[t].k = "nan" THEN 1 ELSE 0
         IN  Append(before, IF t = 1 THEN x ELSE before[t - 1] + x)

\* the sum over the window that ends at row i, from running sums
window_of(sums, i, window) ==
    IF i = window THEN sums[i] ELSE sums[i] - sums[i - window]
fwindow_of(sums, i, window) ==
    IF i = window THEN sums[i] ELSE fsub(sums[i], sums[i - window])

\* the rolling mean with min_periods 1: the mean of the rows there are
rolling_mean_partial(xs, window) ==
    LET sums == cumsum(xs, Len(xs))
    IN  [i \in 1 .. Len(xs) |->
            IF i < window THEN fdiv(sums[i], Q(i, 1))
            ELSE fdiv(fwindow_of(sums, i, window), Q(window, 1))]

\* Series.rolling(window=window).mean(): min_periods is the window, so a row has a
\* value only when the window is full and holds no nan
rolling_mean(xs, window) ==
    LET sums == cumsum(xs, Len(xs))
        nans == cumnan(xs, Len(xs))
    IN  [i \in 1 .. Len(xs) |->
            IF i < window THEN NaN
            ELSE IF window_of(nans, i, window) > 0 THEN NaN
            ELSE fdiv(fwindow_of(sums, i, window), Q(window, 1))]

\* Series.rolling(window=window).std(): ddof is 1. The value is the non-negative
\* square root of the variance; the column keeps the variance (its square)
rolling_var(xs, window) ==
    LET sums == cumsum(xs, Len(xs))
        squares == cumsum([i \in 1 .. Len(xs) |-> fmul(xs[i], xs[i])], Len(xs))
        nans == cumnan(xs, Len(xs))
    IN  [i \in 1 .. Len(xs) |->
            IF i < window THEN NaN
            ELSE IF window_of(nans, i, window) > 0 THEN NaN
            ELSE LET sum == fwindow_of(sums, i, window)
                 IN  fdiv(fsub(fwindow_of(squares, i, window),
                               fdiv(fmul(sum, sum), Q(window, 1))),
                          Q(window - 1, 1))]

\* Series.diff(): nan on the first row
diff(xs) == [i \in 1 .. Len(xs) |-> IF i = 1 THEN NaN ELSE fsub(xs[i], xs[i - 1])]

\* the exponential average with Wilder's smoothing: a = 1 / span
RECURSIVE ewm_mean_wilder(_, _, _)
ewm_mean_wilder(xs, span, t) ==
    IF t = 0 THEN <<>>
    ELSE IF t = 1 THEN <<xs[1]>>
    ELSE LET before == ewm_mean_wilder(xs, span, t - 1)
             alpha == Q(1, span)
         IN  Append(before, fadd(fmul(fsub(Q(1, 1), alpha), before[t - 1]),
                                 fmul(alpha, xs[t])))

\* Series.ewm(span=span, adjust=False).mean(): the first value, then
\* y[t] = (1 - a) * y[t-1] + a * x[t] with a = 2 / (span + 1)
RECURSIVE ewm_mean(_, _, _)
ewm_mean(xs, span, t) ==
    IF t = 0 THEN <<>>
    ELSE IF t = 1 THEN <<xs[1]>>
    ELSE LET before == ewm_mean(xs, span, t - 1)
             alpha == Q(2, span + 1)
         IN  Append(before, fadd(fmul(fsub(Q(1, 1), alpha), before[t - 1]),
                                 fmul(alpha, xs[t])))

\* a band: base + sign * 2 * sqrt(var)
Band(base, sign, var) == [base |-> base, sign |-> sign, var |-> var]

NoFrame == [kind |-> "None", rows |-> <<>>]

\* no copy: the engine works on the caller's frame
copy_alias(frame) == [frame |-> frame, alias |-> TRUE]

\* DataFrame.copy(): a new object (alias: the same object) holding the same values
copy(frame) == [frame |-> frame, alias |-> FALSE]

\* line 72: delta.where(delta > 0, 0).rolling(window=14).mean(); where() puts 0
\* wherever the condition is false, the nan of the first row included
average_gain(delta) ==
    rolling_mean([i \in 1 .. Len(delta) |->
                     IF fgt(delta[i], Zero(1)) THEN delta[i] ELSE Zero(1)], 14)

\* the average of the falls without the minus sign
average_loss_signed(delta) ==
    rolling_mean([i \in 1 .. Len(delta) |->
                     IF flt(delta[i], Zero(1)) THEN delta[i] ELSE Zero(1)], 14)

\* line 73: -delta.where(delta < 0, 0).rolling(window=14).mean()
average_loss(delta) ==
    LET mean == rolling_mean([i \in 1 .. Len(delta) |->
                    IF flt(delta[i], Zero(1)) THEN delta[i] ELSE Zero(1)], 14)
    IN  [i \in 1 .. Len(delta) |-> fneg(mean[i])]

\* the RSI with a division that gives no value where the divisor is 0
relative_strength_index_guarded(gain, loss) ==
    [i \in 1 .. Len(gain) |->
        LET rs == IF loss[i].k = "num" /\ loss[i].n = 0 THEN NaN
                  ELSE fdiv(gain[i], loss[i])
        IN  fsub(Q(100, 1), fdiv(Q(100, 1), fadd(Q(1, 1), rs)))]

\* lines 74-75: rs = gain / loss; 100 - (100 / (1 + rs))
relative_strength_index(gain, loss) ==
    [i \in 1 .. Len(gain) |->
        LET rs == fdiv(gain[i], loss[i])
        IN  fsub(Q(100, 1), fdiv(Q(100, 1), fadd(Q(1, 1), rs)))]

\* lines 59-85: the columns assigned to the frame
indicators(rows) ==
    LET N == Len(rows)
        close == [i \in 1 .. N |-> rows[i].Close]
        volume == [i \in 1 .. N |-> rows[i].Volume]
        MA20 == rolling_mean(close, 20)
        MA50 == rolling_mean(close, 50)
        MA200 == rolling_mean(close, 200)
        VAR20 == rolling_var(close, 20)
        delta == diff(close)
        gain == average_gain(delta)
        loss == average_loss(delta)
        RSI == relative_strength_index(gain, loss)
        exp1 == ewm_mean(close, 12, N)
        exp2 == ewm_mean(close, 26, N)
        MACD == [i \in 1 .. N |-> fsub(exp1[i], exp2[i])]
        Signal_Line == ewm_mean(MACD, 9, N)
        Volume_EMA == ewm_mean(volume, 20, N)
    IN  [i \in 1 .. N |->
            [Open |-> rows[i].Open, High |-> rows[i].High, Low |-> rows[i].Low,
             Close |-> rows[i].Close, Volume |-> rows[i].Volume,
             MA20 |-> MA20[i], MA50 |-> MA50[i], MA200 |-> MA200[i],
             20MA |-> MA20[i], 20VAR |-> VAR20[i],
             Upper_Band |-> Band(MA20[i], 1, VAR20[i]),
             Lower_Band |-> Band(MA20[i], -1, VAR20[i]),
             RSI |-> RSI[i],
             MACD |-> MACD[i], Signal_Line |-> Signal_Line[i],
             MACD_Histogram |-> fsub(MACD[i], Signal_Line[i]),
             Volume_EMA |-> Volume_EMA[i]]]

\* lines 53-87: what the call returns, and the caller's frame after the call
calculate_technical_indicators(frame) ==
    IF frame.kind = "None" \/ frame.rows = <<>>
    THEN [returned |-> NoFrame, input |-> frame]
    ELSE LET target == copy(frame)
             out == [kind |-> "frame", rows |-> indicators(target.frame.rows)]
         IN  [returned |-> out, input |-> IF target.alias THEN out ELSE frame]

\* close > band and close < band, where the band is base + sign * 2 * sqrt(var);
\* a comparison with a nan is false
above(close, band) ==
    LET d == fsub(close, band.base)
        dd == fmul(d, d)
        rr == fmul(Q(4, 1), band.var)
    IN  /\ d.k = "num" /\ band.var.k = "num"
        /\ IF band.sign > 0 THEN d.n > 0 /\ fgt(dd, rr)
           ELSE d.n > 0 \/ (d.n = 0 /\ band.var.n > 0) \/ (d.n < 0 /\ flt(dd, rr))
below(close, band) ==
    LET d == fsub(close, band.base)
        dd == fmul(d, d)
        rr == fmul(Q(4, 1), band.var)
    IN  /\ d.k = "num" /\ band.var.k = "num"
        /\ IF band.sign < 0 THEN d.n < 0 /\ fgt(dd, rr)
           ELSE d.n < 0 \/ (d.n = 0 /\ band.var.n > 0) \/ (d.n > 0 /\ flt(dd, rr))

\* the RSI label with the bounds 70 and 30 included
rsi_status_inclusive(rsi_value) ==
    IF ~flt(rsi_value, Q(70, 1)) THEN "Overbought"
    ELSE IF ~fgt(rsi_value, Q(30, 1)) THEN "Oversold"
    ELSE "Neutral"

\* app.py lines 441-446
rsi_status(rsi_value) ==
    IF fgt(rsi_value, Q(70, 1)) THEN "Overbought"
    ELSE IF flt(rsi_value, Q(30, 1)) THEN "Oversold"
    ELSE "Neutral"

\* the MACD label with equality counted as bullish
macd_status_inclusive(macd_value, signal_value) ==
    IF ~flt(macd_value, signal_value) THEN "Bullish" ELSE "Bearish"

\* app.py line 457
macd_status(macd_value, signal_value) ==
    IF fgt(macd_value, signal_value) THEN "Bullish" ELSE "Bearish"

\* app.py lines 470-475
bb_status(close_price, upper_band, lower_band) ==
    IF above(close_price, upper_band) THEN "Above Upper Band"
    ELSE IF below(close_price, lower_band) THEN "Below Lower Band"
    ELSE "Within Bands"

\* the trend label with "not below" in the place of "above"
ma_status_not_below(ma20, ma50, ma200) ==
    IF ~flt(ma20, ma50) /\ ~flt(ma50, ma200) THEN "Strong Uptrend"
    ELSE IF flt(ma20, ma50) /\ flt(ma50, ma200) THEN "Strong Downtrend"
    ELSE IF ~flt(ma20, ma50) /\ flt(ma50, ma200) THEN "Potential Bullish Crossover"
    ELSE "Mixed Signals"

\* app.py lines 489-496
ma_status(ma20, ma50, ma200) ==
    IF fgt(ma20, ma50) /\ fgt(ma50, ma200) THEN "Strong Uptrend"
    ELSE IF flt(ma20, ma50) /\ flt(ma50, ma200) THEN "Strong Downtrend"
    ELSE IF fgt(ma20, ma50) /\ flt(ma50, ma200) THEN "Potential Bullish Crossover"
    ELSE "Mixed Signals"

Unset == [kind |-> "unset", rows |-> <<>>]
NoRow == [kind |-> "None"]
NoStatus == [kind |-> "None"]

\* no script run of the page is under way
NoRender == [at |-> "idle", fetches |-> <<>>, errors |-> <<>>, charts |-> <<>>]

\* app.py lines 441-497: the four status labels of the latest row
labels(latest) ==
    [kind |-> "shown",
     rsi_status |-> rsi_status(latest.RSI),
     macd_status |-> macd_status(latest.MACD, latest.Signal_Line),
     bb_status |-> bb_status(latest.Close, latest.Upper_Band, latest.Lower_Band),
     ma_status |-> ma_status(latest.MA20, latest.MA50, latest.MA200)]

\* app.py line 427: the page computes the indicators of the history it fetched
tab2_indicators ==
    /\ df = Unset
    /\ LET out == calculate_technical_indicators(data)
       IN  df' = out.returned /\ data' = out.input
    /\ UNCHANGED <<latest_data, status, page, storeVars, formVars, fmtVars>>

\* app.py lines 435-497: the latest row and the four status labels
tab2_latest ==
    /\ df.kind = "frame"
    /\ status = NoStatus
    /\ LET latest == df.rows[Len(df.rows)]
       IN  /\ latest_data' = [kind |-> "row", row |-> latest]
           /\ status' = labels(latest)
    /\ UNCHANGED <<data, df, page, storeVars, formVars, fmtVars>>

\* the lengths of the histories: around each window of the engine
Lengths == {1, 2, 3, 13, 14, 15, 19, 20, 21, 50, 51, 200, 201}

\* a day of a history: the close, and the other columns from it
Day(close) ==
    [Open |-> Q(close, 1), High |-> Q(close + 1, 1), Low |-> Q(close - 1, 1),
     Close |-> Q(close, 1), Volume |-> Q(100 * close, 1)]

\* a history of N days that closes at c, then at x and at y on its last two days
History(N, c, x, y) ==
    [kind |-> "frame",
     rows |-> [i \in 1 .. N |-> Day(IF i = N THEN y ELSE IF i = N - 1 THEN x ELSE c)]]

EmptyFrame == [kind |-> "frame", rows |-> <<>>]

Histories ==
    {NoFrame, EmptyFrame}
        \cup {History(N, c, x, y) : N \in Lengths, c \in 1 .. MaxClose,
                                    x \in 1 .. MaxClose, y \in 1 .. MaxClose}

\* nothing fetched, nothing computed
EngineIdle ==
    /\ data = NoFrame
    /\ df = Unset
    /\ latest_data = NoRow
    /\ status = NoStatus
    /\ page = NoRender

\* a history was fetched
EngineInit ==
    /\ data \in Histories
    /\ df = Unset
    /\ latest_data = NoRow
    /\ status = NoStatus
    /\ page = NoRender

\* the values a latest row may hold
LatestMA == {NaN, Q(1, 1), Q(2, 1), Q(3, 1)}
LatestRSI == {NaN, Q(0, 1), Q(2999, 100), Q(30, 1), Q(50, 1), Q(70, 1), Q(7001, 100), Q(100, 1)}
LatestMACD == {NaN, Q(-1, 2), Zero(1), Q(1, 2)}

\* a frame whose latest row holds given indicator values
LatestFrame(ma20, ma50, ma200, rsi, macd, signal) ==
    [kind |-> "frame",
     rows |-> <<[Open |-> Q(2, 1), High |-> Q(3, 1), Low |-> Q(1, 1),
                 Close |-> Q(2, 1), Volume |-> Q(200, 1),
                 MA20 |-> ma20, MA50 |-> ma50, MA200 |-> ma200,
                 20MA |-> ma20, 20VAR |-> NaN,
                 Upper_Band |-> Band(ma20, 1, NaN), Lower_Band |-> Band(ma20, -1, NaN),
                 RSI |-> rsi, MACD |-> macd, Signal_Line |-> signal,
                 MACD_Histogram |-> fsub(macd, signal), Volume_EMA |-> Q(200, 1)]>>]

\* the indicators were computed; the latest row holds any of the values
LabelInit ==
    /\ data = NoFrame
    /\ \E ma20 \in LatestMA, ma50 \in LatestMA, ma200 \in LatestMA, rsi \in LatestRSI,
          macd \in LatestMACD, signal \in LatestMACD :
          /\ macd = Zero(1) \/ rsi = Q(50, 1)
          /\ df = LatestFrame(ma20, ma50, ma200, rsi, macd, signal)
    /\ latest_data = NoRow
    /\ status = NoStatus
    /\ page = NoRender

\* what get_stock_data may return (utils.py lines 8-24): None when yfinance raised,
\* an empty frame for an unknown ticker, or a history
PageLengths == {1, 2, 21}
Fetched ==
    {NoFrame, EmptyFrame}
        \cup {History(N, c, x, y) : N \in PageLengths, c \in 1 .. MaxClose,
                                    x \in 1 .. MaxClose, y \in 1 .. MaxClose}

\* a call of get_stock_data, by what it returned
Fetch(stock_data) == [kind |-> stock_data.kind, rows |-> Len(stock_data.rows)]

\* only None counts as no data
unavailable_none(stock_data) == stock_data.kind = "None"

\* app.py lines 399, 424: stock_data is None or stock_data.empty
unavailable(stock_data) == stock_data.kind = "None" \/ stock_data.rows = <<>>

MsgUnable == "Unable to fetch data for {ticker}. Please check the symbol and try again."

\* a chart, and the kind of the value it was drawn from
Chart(name, frame) == [chart |-> name, of |-> frame.kind, rows |-> Len(frame.rows)]

\* app.py lines 401-418: the overview of the fetched history, its indicators given
overview(stock_data, data_with_indicators) ==
    /\ df' = data_with_indicators
    /\ page' = [page EXCEPT !.at = "tab2",
                            !.fetches = Append(@, Fetch(stock_data)),
                            !.charts = Append(@, Chart("price", data_with_indicators))]

\* app.py lines 391-418: the overview tab
tab1 ==
    /\ page.at = "tab1"
    /\ \E stock_data \in Fetched :
          /\ data' = stock_data
          /\ IF unavailable(stock_data)
             THEN /\ page' = [page EXCEPT !.at = "tab2",
                                          !.fetches = Append(@, Fetch(stock_data)),
                                          !.errors = Append(@, MsgUnable)]
                  /\ UNCHANGED df
             ELSE overview(stock_data, calculate_technical_indicators(stock_data).returned)
    /\ \E up \in BOOLEAN : summary' = financial_summary(info, up)
    /\ UNCHANGED <<latest_data, status, info, num, formatted, storeVars, formVars>>

\* app.py lines 429-497: the charts and the labels of the technical analysis tab,
\* data_with_indicators being what the tab holds after lines 421-427
technical_analysis(data_with_indicators, fetches, errors) ==
    LET shown == data_with_indicators \notin {Unset, NoFrame}
    IN  /\ df' = data_with_indicators
        /\ page' = [page EXCEPT
               !.at = "done",
               !.fetches = fetches,
               !.errors = errors,
               !.charts = IF shown
                          THEN Append(@, Chart("technical", data_with_indicators))
                          ELSE @]
        /\ IF shown
           THEN LET latest == data_with_indicators.rows[Len(data_with_indicators.rows)]
                IN  /\ latest_data' = [kind |-> "row", row |-> latest]
                    /\ status' = labels(latest)
           ELSE UNCHANGED <<latest_data, status>>

\* app.py lines 420-497: the technical analysis tab
tab2 ==
    /\ page.at = "tab2"
    /\ IF df \in {Unset, NoFrame}
       THEN \E stock_data \in Fetched :
               /\ data' = stock_data
               /\ IF unavailable(stock_data)
                  THEN technical_analysis(df, Append(page.fetches, Fetch(stock_data)),
                                          Append(page.errors, MsgUnable))
                  ELSE technical_analysis(
                           calculate_technical_indicators(stock_data).returned,
                           Append(page.fetches, Fetch(stock_data)), page.errors)
       ELSE /\ technical_analysis(df, page.fetches, page.errors)
            /\ UNCHANGED data
    /\ UNCHANGED <<storeVars, formVars, fmtVars>>

\* a script run of the page begins
PageInit ==
    /\ data = NoFrame
    /\ df = Unset
    /\ latest_data = NoRow
    /\ status = NoStatus
    /\ page = [NoRender EXCEPT !.at = "tab1"]

vars == <<storeVars, formVars, fmtVars, engVars>>

Init == StoreInit /\ FormInit /\ FmtIdle /\ EngineIdle

\* a result is taken before any thread goes on
Next ==
    /\ \E p \in Procs : (Collected /\ Step(p, RaceSymbols)) \/ taken(p)
    /\ UNCHANGED <<formVars, fmtVars, engVars>>

Spec == Init /\ [][Next]_vars

\* no call begins or continues while another thread is inside a call
SeqNext ==
    /\ \E p \in Procs :
          ((\A q \in Procs \ {p} : pc[q] = "idle") /\ Step(p, Symbols)) \/ taken(p)
    /\ UNCHANGED <<formVars, fmtVars, engVars>>

SeqSpec == Init /\ [][SeqNext]_vars

\* one browser session submits the sidebar's forms
FormNext == (login_form \/ signup_form \/ logout) /\ UNCHANGED <<fmtVars, engVars>>

FormSpec == Init /\ [][FormNext]_vars

\* one browser session: the forms with few inputs, and the favorites buttons
SessionPasswords == {<<>>, PwStrong, PwShort}
SessionNext ==
    /\ \/ login_form_of(FormUsernames, SessionPasswords)
       \/ signup_form_of(FormUsernames, StoreEmails, SessionPasswords)
       \/ logout
       \/ favorite_stocks_section(Symbols)
    /\ UNCHANGED <<fmtVars, engVars>>

SessionSpec == Init /\ [][SessionNext]_vars

\* the formatter is applied to an info and to a number
FmtNext == get_financial_summary \/ format_large_number

FmtStart == StoreInit /\ FormInit /\ FmtInit /\ EngineIdle

FmtSpec == FmtStart /\ [][FmtNext]_vars

\* the indicators of a fetched history are computed and its latest row is labelled
EngineNext == tab2_indicators \/ tab2_latest

EngineStart == StoreInit /\ FormInit /\ FmtIdle /\ EngineInit

EngineSpec == EngineStart /\ [][EngineNext]_vars

\* the labels are applied to a latest row
LabelNext == tab2_latest

LabelStart == StoreInit /\ FormInit /\ FmtIdle /\ LabelInit

LabelSpec == LabelStart /\ [][LabelNext]_vars

\* one script run of the page for a ticker
PageNext == tab1 \/ tab2

PageStart == StoreInit /\ FormInit /\ FmtIdle /\ PageInit

PageSpec == PageStart /\ [][PageNext]_vars

(***************************************************************************)
(* Properties of the store.                                                *)
(***************************************************************************)
db == <<users, stocks, favorites>>

Ended(p) == pc[p] \in {"done", "raised"}

UserIds == 1 .. Len(users)
StockIds == 1 .. Len(stocks)

\* no (user, stock) pair has two rows in favorites
NoDuplicateRows ==
    \A u \in UserIds, k \in StockIds : pair_rows(favorites, u, k) <= 1

\* the number of times a symbol stands in a list of symbols
Count(x, s) == Cardinality({i \in 1 .. Len(s) : s[i] = x})

\* C1: two concurrent add_favorite_stock calls for the same (user, symbol), a pair
\* not yet favorited when each began: exactly one returns success, the other
\* returns the already-in-your-favorites failure, and favorites never holds two
\* rows for a pair.
C1_ExactlyOneAdds ==
    /\ NoDuplicateRows
    /\ \A q \in Procs :
        ( /\ Ended(q)
          /\ call[q].op = "add_favorite_stock"
          /\ hist[q].absent
          /\ hist[q].peer.some /\ ~hist[q].more
          /\ hist[q].peer.same_user /\ hist[q].peer.absent )
        => LET mine == result[q]
               other == hist[q].peer
               already == MsgAlready(call[q].symbol)
           IN  \/ /\ mine.kind = "return" /\ mine.ok
                  /\ other.kind = "return" /\ ~other.ok /\ other.msg = already
               \/ /\ other.kind = "return" /\ other.ok
                  /\ mine.kind = "return" /\ ~mine.ok /\ mine.msg = already

\* C2: under one caller at a time each (user, symbol) pair has at most one row; an
\* add_favorite_stock for a pair already present returns the already-favorited
\* failure; get_user_favorites lists a favorited symbol exactly once.
C2_PairAtMostOnce ==
    /\ NoDuplicateRows
    /\ \A q \in Procs :
        /\ ( /\ pc[q] = "done" /\ call[q].op = "add_favorite_stock"
             /\ ~hist[q].absent )
           => result[q] = Returned(FALSE, MsgAlready(call[q].symbol))
        /\ ( pc[q] = "done" /\ call[q].op = "get_user_favorites" )
           => \A symbol \in Symbols :
                 Count(symbol, result[q].favs) =
                    IF Favorited(stocks, favorites, call[q].user_id, symbol) THEN 1 ELSE 0

\* C2's case: a second add of a favorited pair has been refused
C2_Witness ==
    \E q \in Procs :
        /\ pc[q] = "done" /\ call[q].op = "add_favorite_stock"
        /\ ~hist[q].absent
        /\ result[q].msg = MsgAlready("AAPL")
        /\ Favorited(stocks, favorites, call[q].user_id, "AAPL")

\* the whole effect of the call that thread p ends with success in this step
FullEffect(p) ==
    LET c == call'[p]
    IN  CASE c.op = "add_user" ->
               /\ Len(users') = Len(users) + 1
               /\ SubSeq(users', 1, Len(users)) = users
               /\ users'[Len(users')].username = c.username
               /\ users'[Len(users')].email = c.email
               /\ stocks' = stocks /\ favorites' = favorites
          [] c.op = "add_favorite_stock" ->
               /\ users' = users
               /\ \/ stocks' = stocks
                  \/ /\ stock_by_symbol(stocks, c.symbol) = 0
                     /\ stocks' = Append(stocks, [symbol |-> c.symbol, name |-> c.company_name])
               /\ stock_by_symbol(stocks', c.symbol) # 0
               /\ favorites' = Append(favorites, <<c.user_id, stock_by_symbol(stocks', c.symbol)>>)
          [] c.op = "remove_favorite_stock" ->
               /\ users' = users /\ stocks' = stocks
               /\ favorites' = delete_rows(favorites, <<c.user_id, stock_by_symbol(stocks, c.symbol)>>)
               /\ favorites' # favorites
          [] OTHER -> db' = db

\* C3: every mutating call is atomic: the tables change only in the step that ends
\* a call with success, and then by the call's whole effect; a call that ends with
\* a failure (or raises) changes no row, whatever runs beside it.
C3_Atomic ==
    [][ /\ db' # db => \E p \in Procs : pc[p] # pc'[p] /\ pc'[p] = "done" /\ result'[p].ok
        /\ \A p \in Procs :
             (pc[p] # pc'[p] /\ Ended(p)')
             => IF result'[p].kind = "return" /\ result'[p].ok
                THEN FullEffect(p)
                ELSE db' = db ]_vars

\* C3's case: a commit failed beside a conflicting call and was rolled back
C3_Witness ==
    \E p \in Procs :
        /\ pc[p] = "done" /\ call[p].op = "remove_favorite_stock"
        /\ result[p] = Returned(FALSE, MsgError \o MsgStale)
        /\ hist[p].peer.some

C5_StocksNeverShrink ==
    [][ /\ Len(stocks') >= Len(stocks)
        /\ SubSeq(stocks', 1, Len(stocks)) = stocks ]_vars

\* C5's case: a remove succeeded and left a Stock row that no user favorites
C5_Witness ==
    \E p \in Procs :
        /\ pc[p] = "done" /\ call[p].op = "remove_favorite_stock" /\ result[p].ok
        /\ stock_by_symbol(stocks, call[p].symbol) # 0
        /\ \A u \in UserIds : ~Favorited(stocks, favorites, u, call[p].symbol)

\* C6: add_user returns the duplicate-username failure when the username is stored,
\* the duplicate-email failure when the email is stored, both leaving users
\* unchanged; otherwise it stores exactly one new user and returns success.
C6_AddUser ==
    [][ \A p \in Procs :
          (pc[p] # pc'[p] /\ pc'[p] # "idle" /\ call'[p].op = "add_user")
          => LET c == call'[p]
             IN  IF pc'[p] # "done" THEN users' = users
                 ELSE IF user_by_username(users, c.username) # 0
                 THEN users' = users /\ result'[p] = Returned(FALSE, MsgUsernameExists)
                 ELSE IF user_by_email(users, c.email) # 0
                 THEN users' = users /\ result'[p] = Returned(FALSE, MsgEmailExists)
                 ELSE /\ result'[p] = Returned(TRUE, MsgRegistered)
                      /\ Len(users') = Len(users) + 1
                      /\ SubSeq(users', 1, Len(users)) = users
                      /\ users'[Len(users')].username = c.username
                      /\ users'[Len(users')].email = c.email
                      /\ check_password_hash(users'[Len(users')].password_hash, c.password)
      ]_vars

\* C6's case: a second registration with a stored email under a new username
C6_Witness ==
    \E p \in Procs :
        /\ pc[p] = "done" /\ call[p].op = "add_user"
        /\ result[p] = Returned(FALSE, MsgEmailExists)
        /\ user_by_username(users, call[p].username) = 0
        /\ Len(users) = 1

(***************************************************************************)
(* Properties of the forms.                                                *)
(***************************************************************************)
\* C7: authenticate_user returns the User only when the username is stored and the
\* password is the one the user registered with; for an unknown username and for a
\* wrong password it returns the same value, None, and login_form shows the same
\* message and leaves the session logged out in both cases.
C7_Authenticate ==
    form.kind = "login" /\ form.username # "" /\ form.password # <<>> =>
        LET known == user_by_username(users, form.username) # 0
            match == known /\ registered[form.username] = form.password
        IN  /\ form.user # 0 <=> match
            /\ form.user # 0 => /\ users[form.user].username = form.username
                                /\ session_state.user_id = form.user
                                /\ session_state.logged_in
            /\ ~match => /\ form.user = 0
                         /\ message = <<MsgInvalidLogin>>
                         /\ ~session_state.logged_in

\* a login with the wrong password of a registered user has been refused
C7_Witness ==
    /\ form.kind = "login"
    /\ user_by_username(users, form.username) # 0
    /\ form.password # <<>>
    /\ registered[form.username] # form.password
    /\ form.user = 0
    /\ message = <<MsgInvalidLogin>>
    /\ \E u \in Usernames : user_by_username(users, u) = 0

\* the policy in the claim's words
PolicyConforming(password) ==
    /\ Len(password) >= 8
    /\ \E i \in 1 .. Len(password) : password[i] \in UpperChars
    /\ \E i \in 1 .. Len(password) : password[i] \in LowerChars
    /\ \E i \in 1 .. Len(password) : password[i] \in DigitChars

PolicyErrors == {MsgTooShort, MsgNoUpper, MsgNoLower, MsgNoDigit}

\* the submitted signup passes the checks made before the policy: every field
\* filled, a valid email, a matching confirmation
WellFormed(f) ==
    /\ f.username # "" /\ f.password # <<>>
    /\ validate_email(f.email)
    /\ f.confirm_password = f.password

ScaleOf(n) ==
    IF Greater(n, Billion) THEN "B"
    ELSE IF Greater(n, Million) THEN "M"
    ELSE IF Greater(n, Thousand) THEN "K"
    ELSE ""

\* the scale letter a text ends with
Suffix(text) == IF text[Len(text)] \in {"B", "M", "K"} THEN text[Len(text)] ELSE ""

\* n is the whole number with the limbs lim
Same(n, lim) == ~n.neg /\ <<n.g, n.m, n.k, n.u>> = lim /\ n.f = 0

\* text renders n as the claim says: "$", two decimals, the scale of n
MoneyText(text, n) ==
    LET e == IF Suffix(text) = "" THEN Len(text) ELSE Len(text) - 1
    IN  /\ text[1] = "$"
        /\ Suffix(text) = ScaleOf(n)
        /\ e >= 5
        /\ text[e - 2] = "." /\ text[e - 1] \in DigitChars /\ text[e] \in DigitChars
        /\ Same(n, Billion) => text = <<"$", "1", "0", "0", "0", ".", "0", "0", "M">>
        /\ Same(n, Million) => text = <<"$", "1", "0", "0", "0", ".", "0", "0", "K">>
        /\ Same(n, Thousand) => text = <<"$", "1", "0", "0", "0", ".", "0", "0">>
        /\ Same(n, <<2, 500, 0, 0>>) => text = <<"$", "2", ".", "5", "0", "B">>
        /\ Same(n, <<0, 0, 500, 0>>) => text = <<"$", "5", "0", "0", ".", "0", "0", "K">>

\* the summary's entries that are amounts of money
MonetaryKeys == {"market_cap", "enterprise_value", "current_price", "open", "high", "low",
                 "previous_close", "52w_high", "52w_low", "dividend_rate",
                 "target_mean_price"}

\* C9: format_large_number, and the summary for each monetary field, render a number
\* with the scale its strict comparisons give: B above 1e9, else M above 1e6, else K
\* above 1e3, else none, each with two decimals; so 1,000,000,000 is "$1000.00M",
\* 1,000,000 is "$1000.00K", 1,000 is "$1000.00", 2,500,000,000 is "$2.50B" and
\* 500,000 is "$500.00K".
C9_StrictThresholds ==
    /\ num.t = "num" /\ formatted # <<>> => MoneyText(formatted, num.n)
    /\ summary.kind = "dict" =>
           \A key \in MonetaryKeys :
               LET value == raw_summary(info)[key]
               IN  value.t = "num" =>
                       /\ summary.d[key].t = "str"
                       /\ MoneyText(summary.d[key].s, value.n)

\* exactly 1,000,000,000 has been rendered in M by both
C9_Witness ==
    /\ num.t = "num" /\ Same(num.n, Billion)
    /\ formatted = <<"$", "1", "0", "0", "0", ".", "0", "0", "M">>
    /\ summary.kind = "dict"
    /\ info["marketCap"].t = "num" /\ Same(info["marketCap"].n, Billion)
    /\ summary.d["market_cap"] = Str(formatted)

\* the field behind a summary key is absent from info
FieldAbsent(key) ==
    IF key = "current_price"
    THEN info["currentPrice"].t = "absent" /\ info["regularMarketPrice"].t = "absent"
    ELSE IF key = "dividend_yield" THEN info["dividendYield"].t = "absent"
    ELSE info[Source[key]].t = "absent"

\* C10: in the summary get_financial_summary returns, the entry of every field that
\* is absent from the raw record is the text "N/A", the ratio fields pe_ratio,
\* forward_pe, peg_ratio, price_to_book, enterprise_value, enterprise_to_revenue and
\* enterprise_to_ebitda included.
C10_AbsentIsNA ==
    summary.kind = "dict" =>
        \A key \in SummaryKeys : FieldAbsent(key) => summary.d[key] = NA

\* the ratio-like fields of the summary
RatioFields == {"pe_ratio", "forward_pe", "peg_ratio", "price_to_book", "beta",
                "enterprise_to_revenue", "enterprise_to_ebitda"}

\* value is a text of digits with two decimals, no "$" before and no scale after
PlainTwoDecimals(value) ==
    /\ value.t = "str"
    /\ Len(value.s) >= 4
    /\ value.s[1] \in DigitChars \cup {"-"}
    /\ \A i \in 2 .. Len(value.s) : value.s[i] \in DigitChars \cup {"."}
    /\ value.s[Len(value.s) - 2] = "."

\* C11: every ratio-like field that holds a number in the raw record, an int or a
\* float of any magnitude, is rendered in the summary as a plain two-decimal number
\* with no currency prefix and no K/M/B suffix.
C11_RatioTwoDecimals ==
    summary.kind = "dict" =>
        \A key \in RatioFields :
            info[Source[key]].t = "num" =>
                /\ PlainTwoDecimals(summary.d[key])
                /\ \E up \in BOOLEAN :
                       summary.d[key].s = two_decimals(info[Source[key]].n, 0, up)

\* C12: a dividend yield present in the raw record as a fraction, 0 included, is
\* rendered as the value times 100 with two decimals and no currency scaling
\* (0.0123 as "1.23"); the entry is "N/A" only when the field is absent.
C12_YieldTimes100 ==
    summary.kind = "dict" =>
        LET y == info["dividendYield"]
        IN  /\ y.t = "absent" => summary.d["dividend_yield"] = NA
            /\ y.t = "num" /\ ~y.n.int =>
                  /\ PlainTwoDecimals(summary.d["dividend_yield"])
                  /\ \E up \in BOOLEAN :
                         summary.d["dividend_yield"].s = two_decimals(times100(y.n), 0, up)
                  /\ y.n = FloatNum(0, 0, 0, 0, 12300) =>
                         summary.d["dividend_yield"].s = <<"1", ".", "2", "3">>

\* a float holds a number
Defined(a) == a.k = "num"

\* a is a number below the number b
Below(a, b) == Defined(a) /\ Defined(b) /\ a.n * b.d < b.n * a.d

\* the labelled row
Latest == latest_data.row

C14_RsiLabel ==
    status.kind = "shown" =>
        LET RSI == Latest.RSI
        IN  /\ status.rsi_status = "Overbought" <=> Below(Q(70, 1), RSI)
            /\ status.rsi_status = "Oversold" <=> Below(RSI, Q(30, 1))
            /\ status.rsi_status \in {"Overbought", "Oversold", "Neutral"}
            /\ RSI \in {Q(70, 1), Q(30, 1), NaN} => status.rsi_status = "Neutral"

\* a row whose RSI is 70 was labelled
C14_Witness ==
    /\ status.kind = "shown"
    /\ Latest.RSI = Q(70, 1)


OHLCV == {"Open", "High", "Low", "Close", "Volume"}

\* C15: for a non-empty history of N rows the engine returns exactly N rows, row i
\* holding the Open, High, Low, Close and Volume of the history's row i, and the
\* caller's history is as before the call: no column more, no value changed.
C15_RowsKept ==
    [][(df = Unset /\ df' # Unset /\ data.kind = "frame" /\ data.rows # <<>>) =>
          /\ data' = data
          /\ \A i \in 1 .. Len(data'.rows) : DOMAIN data'.rows[i] = OHLCV
          /\ df'.kind = "frame"
          /\ Len(df'.rows) = Len(data.rows)
          /\ \A i \in 1 .. Len(data.rows) :
                \A column \in OHLCV : df'.rows[i][column] = data.rows[i][column]]_vars

\* the indicators of a history of 201 days with three different closes were computed
C15_Witness ==
    /\ df.kind = "frame"
    /\ Len(df.rows) = 201
    /\ Cardinality({df.rows[i].Close : i \in 199 .. 201}) = 3


\* the windows of the moving averages and their columns
Windows == {20, 50, 200}
MAColumn(w) == IF w = 20 THEN "MA20" ELSE IF w = 50 THEN "MA50" ELSE "MA200"

\* the sum of the closes of rows a .. b (the closes of a history are whole numbers)
RECURSIVE SumClose(_, _, _)
SumClose(rows, a, b) ==
    IF a > b THEN 0 ELSE rows[b].Close.n + SumClose(rows, a, b - 1)

\* C16: for w in {20, 50, 200}, MAw is undefined on the first w - 1 rows (on every
\* row of a history shorter than w) and on every later row it is the arithmetic mean
\* of the w closes that end at the row.
C16_MovingAverages ==
    df.kind = "frame" =>
        \A w \in Windows : \A i \in 1 .. Len(df.rows) :
            LET ma == df.rows[i][MAColumn(w)]
            IN  IF i < w THEN ma = NaN
                ELSE /\ Defined(ma)
                     /\ ma.n * w = SumClose(data.rows, i - w + 1, i) * ma.d

\* a history of 201 days: MA200 is undefined until day 199 and moves with the window
C16_Witness ==
    /\ df.kind = "frame"
    /\ Len(df.rows) = 201
    /\ df.rows[199].MA200 = NaN
    /\ Defined(df.rows[200].MA200)
    /\ Below(df.rows[200].MA200, df.rows[201].MA200)


\* C17: wherever the RSI of a row is defined it lies between 0 and 100, both included
\* (and it is never an infinity).
C17_RsiRange ==
    df.kind = "frame" =>
        \A i \in 1 .. Len(df.rows) :
            LET RSI == df.rows[i].RSI
            IN  /\ RSI.k \in {"num", "nan"}
                /\ Defined(RSI) => 0 <= RSI.n /\ RSI.n <= 100 * RSI.d

\* the last 14 changes hold a rise and a fall: the RSI is strictly between 0 and 100
C17_Witness ==
    /\ df.kind = "frame"
    /\ Len(df.rows) = 21
    /\ Below(Q(0, 1), df.rows[21].RSI)
    /\ Below(df.rows[21].RSI, Q(100, 1))
    /\ df.rows[20].RSI = Q(100, 1)


\* the rise and the fall of the close from row j - 1 to row j, 0 on the first row
Rise(rows, j) ==
    IF j > 1 /\ rows[j].Close.n > rows[j - 1].Close.n
    THEN rows[j].Close.n - rows[j - 1].Close.n ELSE 0
Fall(rows, j) ==
    IF j > 1 /\ rows[j].Close.n < rows[j - 1].Close.n
    THEN rows[j - 1].Close.n - rows[j].Close.n ELSE 0

\* the sums of the rises and of the falls of rows a .. b
RECURSIVE SumRise(_, _, _)
SumRise(rows, a, b) == IF a > b THEN 0 ELSE Rise(rows, b) + SumRise(rows, a, b - 1)
RECURSIVE SumFall(_, _, _)
SumFall(rows, a, b) == IF a > b THEN 0 ELSE Fall(rows, b) + SumFall(rows, a, b - 1)

\* C18: on a row whose 14-period average loss is 0 the RSI is exactly 100 when the
\* average gain is positive and undefined when the average gain is 0 too; the engine
\* returns its frame for such a history (the division by 0 raises nothing).
C18_ZeroLoss ==
    /\ df # Unset /\ data.kind = "frame" /\ data.rows # <<>> => df.kind = "frame"
    /\ df.kind = "frame" =>
           \A i \in 14 .. Len(df.rows) :
               SumFall(data.rows, i - 13, i) = 0 =>
                   df.rows[i].RSI = IF SumRise(data.rows, i - 13, i) > 0
                                    THEN Q(100, 1) ELSE NaN

\* a flat stretch and then a rise: the RSI is undefined and then exactly 100
C18_Witness ==
    /\ df.kind = "frame"
    /\ Len(df.rows) = 51
    /\ df.rows[49].RSI = NaN
    /\ df.rows[50].RSI = Q(100, 1)
    /\ df.rows[51].RSI = Q(100, 1)


\* C19: on every row MACD_Histogram is MACD minus Signal_Line (the histogram and the
\* signal add up to the MACD), and the MACD label shown is "Bullish" exactly when the
\* histogram of the latest row is above 0 and "Bearish" otherwise, at 0 included.
C19_Histogram ==
    /\ df.kind = "frame" =>
           \A i \in 1 .. Len(df.rows) :
               /\ Defined(df.rows[i].MACD_Histogram)
               /\ fadd(df.rows[i].MACD_Histogram, df.rows[i].Signal_Line) = df.rows[i].MACD
    /\ status.kind = "shown" =>
           status.macd_status =
               IF Latest.MACD_Histogram.n > 0 THEN "Bullish" ELSE "Bearish"

\* a bullish label on a day the close fell: the histogram is still above 0
C19_Witness ==
    /\ status.kind = "shown"
    /\ status.macd_status = "Bullish"
    /\ Len(df.rows) = 201
    /\ Below(df.rows[201].Close, df.rows[200].Close)
    /\ Latest.MACD_Histogram.n > 0


\* the first t values of the average that starts at xs[1] and then follows
\* EMA[t] = a * xs[t] + (1 - a) * EMA[t - 1] with a = 2 / (span + 1), written as
\* (2 * xs[t] + (span - 1) * EMA[t - 1]) / (span + 1)
RECURSIVE Ema(_, _, _)
Ema(xs, span, t) ==
    IF t = 1 THEN <<xs[1]>>
    ELSE LET before == Ema(xs, span, t - 1)
         IN  Append(before, fdiv(fadd(fmul(Q(2, 1), xs[t]),
                                      fmul(Q(span - 1, 1), before[t - 1])),
                                 Q(span + 1, 1)))

\* C20: the averages of spans 12 and 26 of the close, of span 9 of the MACD and of
\* span 20 of the volume start at the first value and follow
\* EMA[t] = a * x[t] + (1 - a) * EMA[t - 1] with a = 2 / (span + 1); MACD, Signal_Line,
\* MACD_Histogram and Volume_EMA are defined on every row, and on the first row they
\* are 0, 0, 0 and the first volume.
C20_SeededEma ==
    df.kind = "frame" =>
        LET N == Len(df.rows)
            close == [i \in 1 .. N |-> data.rows[i].Close]
            volume == [i \in 1 .. N |-> data.rows[i].Volume]
            ema12 == Ema(close, 12, N)
            ema26 == Ema(close, 26, N)
            macd == [i \in 1 .. N |-> fsub(ema12[i], ema26[i])]
            signal == Ema(macd, 9, N)
            volume_ema == Ema(volume, 20, N)
        IN  /\ \A i \in 1 .. N :
                  /\ df.rows[i].MACD = macd[i] /\ Defined(macd[i])
                  /\ df.rows[i].Signal_Line = signal[i] /\ Defined(signal[i])
                  /\ df.rows[i].Volume_EMA = volume_ema[i] /\ Defined(volume_ema[i])
                  /\ Defined(df.rows[i].MACD_Histogram)
            /\ df.rows[1].MACD = Zero(1)
            /\ df.rows[1].Signal_Line = Zero(1)
            /\ df.rows[1].MACD_Histogram = Zero(1)
            /\ df.rows[1].Volume_EMA = data.rows[1].Volume

\* three days with three closes: the averages have left their first values
C20_Witness ==
    /\ df.kind = "frame"
    /\ Len(df.rows) = 3
    /\ Below(Q(0, 1), df.rows[2].MACD)
    /\ df.rows[3].MACD_Histogram.n < 0
    /\ Below(df.rows[3].Volume, df.rows[3].Volume_EMA)


\* the sum of the squares of the closes of rows a .. b
RECURSIVE SumSqClose(_, _, _)
SumSqClose(rows, a, b) ==
    IF a > b THEN 0
    ELSE rows[b].Close.n * rows[b].Close.n + SumSqClose(rows, a, b - 1)

\* band is mean + sign * 2 * s, where mean is the mean of the closes of rows a .. b
\* and s * s is their variance with the divisor b - a + 1 - ddof
IsBand(band, sign, rows, a, b, ddof) ==
    LET w == b - a + 1
        sum == SumClose(rows, a, b)
    IN  /\ band.sign = sign
        /\ Defined(band.base) /\ band.base.n * w = sum * band.base.d
        /\ Defined(band.var)
        /\ band.var.n * w * (w - ddof) = (w * SumSqClose(rows, a, b) - sum * sum) * band.var.d

\* C21: from the twentieth row on, Upper_Band and Lower_Band are the mean of the last
\* 20 closes plus and minus 2 times their population standard deviation (divisor 20);
\* on the rows before, both bands are undefined.
C21_PopulationBands ==
    df.kind = "frame" =>
        \A i \in 1 .. Len(df.rows) :
            LET upper == df.rows[i].Upper_Band
                lower == df.rows[i].Lower_Band
            IN  IF i < 20
                THEN upper.base = NaN /\ upper.var = NaN /\ lower.base = NaN /\ lower.var = NaN
                ELSE /\ IsBand(upper, 1, data.rows, i - 19, i, 0)
                     /\ IsBand(lower, -1, data.rows, i - 19, i, 0)


\* a call of get_stock_data that returned None or an empty frame
Failed(fetch) == fetch.kind = "None" \/ fetch.rows = 0

\* the calls of get_stock_data of the run that failed
FailedFetches == {k \in 1 .. Len(page.fetches) : Failed(page.fetches[k])}

\* C22: the engine returns None for a null and for an empty history (it raises
\* nothing); the page draws every chart and takes the latest row's labels from a
\* frame with rows only; each null or empty fetch shows the message that the data
\* could not be fetched, and a tab whose fetch failed shows no chart and no label.
C22_NoDataNoCharts ==
    /\ calculate_technical_indicators(NoFrame).returned = NoFrame
    /\ calculate_technical_indicators(EmptyFrame).returned = NoFrame
    /\ \A k \in 1 .. Len(page.charts) :
           page.charts[k].of = "frame" /\ page.charts[k].rows > 0
    /\ status.kind = "shown" => df.kind = "frame" /\ df.rows # <<>>
    /\ Len(page.errors) = Cardinality(FailedFetches)
    /\ \A k \in 1 .. Len(page.errors) : page.errors[k] = MsgUnable
    /\ Len(page.fetches) >= 1 /\ Failed(page.fetches[1]) =>
           \A k \in 1 .. Len(page.charts) : page.charts[k].chart # "price"
    /\ Len(page.fetches) >= 1 /\ Failed(page.fetches[Len(page.fetches)]) =>
           page.charts = <<>> /\ status = NoStatus /\ latest_data = NoRow

\* a run whose fetches returned None and then an empty frame ended with two messages
C22_Witness ==
    /\ page.at = "done"
    /\ page.fetches = <<Fetch(NoFrame), Fetch(EmptyFrame)>>
    /\ page.errors = <<MsgUnable, MsgUnable>>
    /\ page.charts = <<>>

\* C23: within one run of the page get_stock_data is called at most once, and a call
\* that failed or returned an empty history is shown to the user as an error message.
C23_NoRetry ==
    /\ Len(page.fetches) <= 1
    /\ Len(page.errors) = Cardinality(FailedFetches)


\* the rows of stocks that hold the symbol
StockRows(symbol) == {k \in StockIds : stocks[k].symbol = symbol}

\* C24: two different registered users call add_favorite_stock concurrently for a
\* symbol that had no Stock row when each call began: both calls return success,
\* afterwards stocks holds exactly one row for the symbol and both users have the
\* symbol among their favorites.
C24_BothAdd ==
    \A q \in Procs :
        ( /\ Ended(q)
          /\ call[q].op = "add_favorite_stock"
          /\ hist[q].unseen /\ hist[q].known
          /\ hist[q].peer.some /\ ~hist[q].more
          /\ ~hist[q].peer.same_user
          /\ hist[q].peer.unseen /\ hist[q].peer.known )
        => /\ result[q].kind = "return" /\ result[q].ok
           /\ hist[q].peer.kind = "return" /\ hist[q].peer.ok
           /\ Cardinality(StockRows(call[q].symbol)) = 1
           /\ Favorited(stocks, favorites, call[q].user_id, call[q].symbol)
           /\ Favorited(stocks, favorites, hist[q].peer.user_id, call[q].symbol)


FavoriteOps == {"add_favorite_stock", "remove_favorite_stock"}

\* a step keeps to the favorites of the acting call's user, and a call for an unknown
\* user id is refused with nothing changed
OwnFavoritesOnly ==
    /\ favorites' # favorites =>
           \E p \in Procs :
              /\ call[p].op \in FavoriteOps
              /\ pc[p] # pc'[p]
              /\ \A u \in UserIdArgs \ {call[p].user_id} :
                     rows_of_user(favorites', u) = rows_of_user(favorites, u)
    /\ \A q \in Procs :
           ( /\ pc[q] = "idle" /\ call'[q].op \in FavoriteOps
             /\ user_by_id(users, call'[q].user_id) = 0 )
           => /\ pc'[q] = "done"
              /\ result'[q] = Returned(FALSE, MsgUserNotFound)
              /\ db' = db

\* C26: a step that changes the favorites table is the commit of an add_favorite_stock
\* or remove_favorite_stock call and leaves the rows of every user but the call's own
\* as they were; such a call for a user id that names no user ends at once with the
\* failure "User not found." and leaves users, stocks and favorites unchanged.
C26_OwnFavoritesOnly == [][OwnFavoritesOnly]_vars

\* a user removed a favorite that another user has too, and still has
C26_Witness ==
    \E q \in Procs :
        /\ pc[q] = "done" /\ call[q].op = "remove_favorite_stock"
        /\ result[q] = Returned(TRUE, MsgRemoved(call[q].symbol))
        /\ \E u \in UserIds \ {call[q].user_id} :
               Favorited(stocks, favorites, u, call[q].symbol)

\* the three session fields agree: logged in exactly when a user id and a name are set
SessionAgrees(ses) == ses.logged_in <=> (ses.user_id # 0 /\ ses.username # "")

\* what one submitted form or pressed button may do to the session and the favorites
SessionStep ==
    /\ (form'.kind = "login" /\ form'.user = 0) => UNCHANGED session_state
    /\ form'.kind = "signup" => UNCHANGED session_state
    /\ form'.kind = "logout" =>
           session_state' = [user_id |-> 0, username |-> "", logged_in |-> FALSE]
    /\ form'.kind \in {"add_favorite", "remove_favorite"} =>
           /\ session_state.logged_in
           /\ form'.user_id = session_state.user_id
    /\ (favorites' # favorites \/ stocks' # stocks) =>
           /\ session_state.logged_in
           /\ form'.kind \in {"add_favorite", "remove_favorite"}
           /\ \A q \in UserIdArgs \ {session_state.user_id} :
                  rows_of_user(favorites', q) = rows_of_user(favorites, q)

\* C27: in every session state reachable by logins, signups, logouts and favorites
\* buttons, logged_in is True exactly when user_id and username are both set; a failed
\* login and any signup leave the three fields unchanged, a logout resets all three,
\* and a favorites button is pressed only while logged_in is True, passes the
\* session's own user_id, and changes no other user's favorites
C27_SessionConsistent == [](SessionAgrees(session_state)) /\ [][SessionStep]_vars

\* the logged-in user bob (id 2) added a ticker with the button, and has it
C27_Witness ==
    /\ session_state.logged_in
    /\ session_state.user_id = 2
    /\ form.kind = "add_favorite"
    /\ form.user_id = 2
    /\ message = <<MsgAdded(form.ticker)>>
    /\ Favorited(stocks, favorites, 2, form.ticker)
    /\ Favorited(stocks, favorites, 1, form.ticker)

\* the RSI that the rises and the falls of rows a .. b give
IsRsi(RSI, rows, a, b) ==
    LET up == SumRise(rows, a, b)
        down == SumFall(rows, a, b)
    IN  IF down = 0 THEN RSI = (IF up > 0 THEN Q(100, 1) ELSE NaN)
        ELSE Defined(RSI) /\ RSI.n * (up + down) = 100 * up * RSI.d

\* C28: the RSI of row t (counted from 0) comes from the 14 changes of the close on
\* rows t-13 .. t, each row compared with the row before it, so it is undefined on
\* every row t < 14: row 0 has no change and gives no value to any 14-period average.
C28_FourteenChanges ==
    df.kind = "frame" =>
        \A t \in 0 .. Len(df.rows) - 1 :
            IF t < 14 THEN df.rows[t + 1].RSI = NaN
            ELSE IsRsi(df.rows[t + 1].RSI, data.rows, t - 12, t + 1)

====
